---- MODULE Spec2Model ----
(***************************************************************************)
(* Verification model of the Echo Chamber pattern engine                   *)
(* (SequenceAnalyzer, HistoricalAnalyzer, EnhancedEchoChamber).            *)
(*                                                                         *)
(* JavaScript values are encoded as pairs <<p, q>> of integers:            *)
(*   q > 0   the finite number p/q, in lowest terms (exact arithmetic);    *)
(*   q = 0   a non-finite number: <<1,0>> = Infinity, <<-1,0>> =           *)
(*           -Infinity, <<0,0>> = NaN;                                     *)
(*   q = -1  a value whose typeof is not 'number' (e.g. the string 'two'); *)
(*   q = -2  null.                                                         *)
(* A finite number that is not a fraction of 32-bit integers because it    *)
(* lies a whole number e of EPSILONs away from one is <<p, q, e>>, the     *)
(* number p/q + e * 1e-10 (e # 0, and |e| * 1e-10 far below |p/q| unless   *)
(* p = 0, so that p/q decides the sign and the comparison with EPSILON).  A double beyond the 32-bit fractions  *)
(* is <<p, q, 0, 1>>, the number p/q * Number.MAX_VALUE (0 < |p/q| <= 1),  *)
(* or <<p, q, 0, -1>>, the number p/q / Number.MAX_VALUE.                  *)
(* Arrays live in a heap and are passed by reference, as in JavaScript.    *)
(* Timestamps are not modelled.  lastId is what a caller that reads the    *)
(* history after each call remembers: the id of the entry recorded last.   *)
(***************************************************************************)
EXTENDS Integers, Sequences, FiniteSets, TLC

VARIABLES heap, memories, history, lastCall, lastId

vars == <<heap, memories, history, lastCall, lastId>>

----------------------------------------------------------------------------
(* Bounds of the model                                                     *)

MaxArrays == 1
MaxSeqLen == 7
MaxMem == 2
MaxTerm == 2
MaxTerms == 5
MaxBinaryLen == 7
MaxPower == 6

----------------------------------------------------------------------------
(* JavaScript numbers                                                      *)

\* EPSILON = 1e-10 = 1 / (EpsilonInvRoot * EpsilonInvRoot)
EpsilonInvRoot == 100000

NaN == <<0, 0>>
Infinity == <<1, 0>>
NegInfinity == <<-1, 0>>
Str == <<0, -1>>
Null == <<0, -2>>

AbsInt(n) == IF n < 0 THEN -n ELSE n
SignInt(n) == IF n < 0 THEN -1 ELSE IF n > 0 THEN 1 ELSE 0

RECURSIVE GCD(_, _)
GCD(a, b) == IF b = 0 THEN a ELSE GCD(b, a % b)

\* the number p/q (q of any sign, q = 0 gives the non-finite values)
Norm(p, q) ==
    IF q = 0 THEN <<SignInt(p), 0>>
    ELSE LET g == GCD(AbsInt(p), AbsInt(q))
             s == SignInt(q)
         IN <<(s * p) \div g, (s * q) \div g>>

N(n) == <<n, 1>>

typeofNumber(v) == v[2] >= 0
isNaN(v) == v = NaN
isFinite(v) == v[2] > 0

\* the count e of EPSILONs in p/q + e * EPSILON
EpsilonPart(x) == IF Len(x) = 3 THEN x[3] ELSE 0

\* the finite number r + e * EPSILON; a non-finite r stays what it is
WithEpsilon(r, e) == IF r[2] > 0 /\ e # 0 THEN <<r[1], r[2], e>> ELSE r

\* k * EPSILON
Eps(k) == WithEpsilon(N(0), k)

\* 1 for p/q * MAX_VALUE, -1 for p/q / MAX_VALUE, 0 for every other number
Scale(x) == IF Len(x) = 4 THEN x[4] ELSE 0

\* the double r * MAX_VALUE^k for a fraction r: beyond MAX_VALUE it is an
\* infinity, below 1 / MAX_VALUE^2 it is 0
Scaled(r, k) ==
    IF r[2] = 0 \/ k = 0 THEN r
    ELSE IF r[1] = 0 \/ k < -1 THEN N(0)
    ELSE IF k > 1 \/ (k = 1 /\ AbsInt(r[1]) > r[2]) THEN <<SignInt(r[1]), 0>>
    ELSE <<r[1], r[2], 0, k>>

\* Number.MAX_VALUE
MaxValue == Scaled(N(1), 1)

\* -1, 0 or 1: the sign of the number (0 for NaN as well)
SignOf(x) == IF x[1] # 0 THEN SignInt(x[1]) ELSE SignInt(EpsilonPart(x))

Neg(a) ==
    IF Scale(a) # 0 THEN <<-a[1], a[2], 0, Scale(a)>>
    ELSE WithEpsilon(<<-a[1], a[2]>>, -EpsilonPart(a))

\* the sum of two finite numbers: of different scales, the one of the
\* greater scale unless it is 0 (the other one is below its rounding error)
AddFinite(a, b) ==
    IF Scale(a) = Scale(b)
    THEN Scaled(WithEpsilon(Norm(a[1] * b[2] + b[1] * a[2], a[2] * b[2]),
                            EpsilonPart(a) + EpsilonPart(b)),
                Scale(a))
    ELSE IF Scale(a) > Scale(b) THEN (IF a = N(0) THEN b ELSE a)
    ELSE (IF b = N(0) THEN a ELSE b)

Add(a, b) ==
    IF isNaN(a) \/ isNaN(b) THEN NaN
    ELSE IF a[2] = 0 /\ b[2] = 0 THEN (IF a = b THEN a ELSE NaN)
    ELSE IF a[2] = 0 THEN a
    ELSE IF b[2] = 0 THEN b
    ELSE AddFinite(a, b)

Sub(a, b) == Add(a, Neg(b))

\* the product of two finite numbers; a factor with an EPSILON part is
\* multiplied by whole numbers only, so that the result is again
\* p/q + e * EPSILON
MulFinite(a, b) ==
    IF Scale(a) = 0 /\ Scale(b) = 0
    THEN WithEpsilon(Norm(a[1] * b[1], a[2] * b[2]),
                     (EpsilonPart(a) * b[1]) \div b[2]
                        + (EpsilonPart(b) * a[1]) \div a[2])
    ELSE Scaled(Norm(a[1] * b[1], a[2] * b[2]), Scale(a) + Scale(b))

Mul(a, b) ==
    IF a[2] = 0 \/ b[2] = 0
    THEN (IF isNaN(a) \/ isNaN(b) THEN NaN ELSE Norm(SignOf(a) * SignOf(b), 0))
    ELSE MulFinite(a, b)

\* 1 / a, for a number without EPSILON part
Inv(a) ==
    IF a[1] = 0 THEN (IF a[2] = 0 THEN NaN ELSE Infinity)
    ELSE Scaled(<<SignInt(a[1]) * a[2], AbsInt(a[1])>>, -Scale(a))

Div(a, b) == Mul(a, Inv(b))

MathAbs(a) == IF SignOf(a) < 0 THEN Neg(a) ELSE a

\* x < EPSILON (false for NaN): p/q < 1e-10 iff p <= floor((q - 1) / 1e10);
\* e * EPSILON < EPSILON iff e < 1; with p # 0 the fraction decides
LtEpsilon(x) ==
    \/ x = NegInfinity
    \/ /\ x[2] > 0
       /\ IF Scale(x) # 0 THEN (Scale(x) < 0 \/ x[1] < 0)
          ELSE IF EpsilonPart(x) = 0
          THEN x[1] <= ((x[2] - 1) \div EpsilonInvRoot) \div EpsilonInvRoot
          ELSE IF x[1] = 0 THEN EpsilonPart(x) < 1 ELSE x[1] < 0

\* x > EPSILON (false for NaN): p/q > 1e-10 iff p > floor(q / 1e10);
\* e * EPSILON > EPSILON iff e > 1; with p # 0 the fraction decides
GtEpsilon(x) ==
    \/ x = Infinity
    \/ /\ x[2] > 0
       /\ IF Scale(x) # 0 THEN (Scale(x) > 0 /\ x[1] > 0)
          ELSE IF EpsilonPart(x) = 0
          THEN x[1] > (x[2] \div EpsilonInvRoot) \div EpsilonInvRoot
          ELSE IF x[1] = 0 THEN EpsilonPart(x) > 1 ELSE x[1] > 0

----------------------------------------------------------------------------
(* SequenceAnalyzer                                                        *)
(* A pattern object is a record with one field per property any detector   *)
(* sets; a property a detector leaves out is Null ("undefined" for type).  *)
(* The display strings (formula, description, explanation) are left out.   *)

NoTable == <<>>

Pattern(type, isValid, nextNumber, commonDifference, commonRatio, degree, differences, firstTerm, lastTerm, termCount) ==
    [type |-> type, isValid |-> isValid, nextNumber |-> nextNumber,
     commonDifference |-> commonDifference, commonRatio |-> commonRatio,
     degree |-> degree, differences |-> differences,
     firstTerm |-> firstTerm, lastTerm |-> lastTerm, termCount |-> termCount]

\* { isValid: false }
NotValid == Pattern("undefined", FALSE, Null, Null, Null, 0, NoTable, Null, Null, 0)
\* a bug: the dispatcher and analyze disagree on the spelling of the type
UnknownPattern_Misspelt ==
    [type |-> "unkown", isValid |-> FALSE, nextNumber |-> <<0, -2>>,
     commonDifference |-> <<0, -2>>, commonRatio |-> <<0, -2>>, degree |-> 0,
     differences |-> <<>>, firstTerm |-> <<0, -2>>, lastTerm |-> <<0, -2>>,
     termCount |-> 0]

\* { type: 'unknown', error: 'No pattern detected' }
UnknownPattern == Pattern("unknown", FALSE, Null, Null, Null, 0, NoTable, Null, Null, 0)
\* { type: 'invalid', error: 'Sequence too short' }
InvalidPattern == Pattern("invalid", FALSE, Null, Null, Null, 0, NoTable, Null, Null, 0)
\* pattern: null
NullPattern == Pattern("null", FALSE, Null, Null, Null, 0, NoTable, Null, Null, 0)

\* a bug: the difference taken the wrong way round
DiffRow_Reversed(row) == [j \in 1..(Len(row) - 1) |-> Sub(row[j], row[j + 1])]

\* the consecutive differences row[i] - row[i-1]
DiffRow(row) == [j \in 1..(Len(row) - 1) |-> Sub(row[j + 1], row[j])]

\* a bug: the ratio taken the wrong way round
RatioRow_Reversed(row) == [j \in 1..(Len(row) - 1) |-> Div(row[j], row[j + 1])]

\* the consecutive ratios row[i] / row[i-1]
RatioRow(row) == [j \in 1..(Len(row) - 1) |-> Div(row[j + 1], row[j])]

\* row[row.length - 1]; reading past the end gives undefined, which turns
\* every sum it enters into NaN
LastOf(row) == IF Len(row) = 0 THEN NaN ELSE row[Len(row)]

\* a bug: the last element of the row left out of the comparison
AllWithinEpsilon_SkipLast(row) ==
    \A j \in 1..(Len(row) - 1) : LtEpsilon(MathAbs(Sub(row[j], row[1])))

\* differences.every(d => Math.abs(d - firstDiff) < EPSILON)
AllWithinEpsilon(row) ==
    \A j \in 1..Len(row) : LtEpsilon(MathAbs(Sub(row[j], row[1])))

analyzeArithmetic(sequence) ==
    IF Len(sequence) < 2 THEN NotValid
    ELSE LET differences == DiffRow(sequence)
             firstDiff == differences[1]
         IN IF AllWithinEpsilon(differences)
            THEN Pattern("arithmetic", TRUE,
                         Add(sequence[Len(sequence)], firstDiff),
                         firstDiff, Null, 0, NoTable,
                         sequence[1], sequence[Len(sequence)], Len(sequence))
            ELSE NotValid

\* a bug: only the divisors are tested, not the last term
SomeNearZero_Divisors(sequence) ==
    \E i \in 1..(Len(sequence) - 1) : LtEpsilon(MathAbs(sequence[i]))

\* sequence.some(n => Math.abs(n) < EPSILON)
SomeNearZero(sequence) ==
    \E i \in 1..Len(sequence) : LtEpsilon(MathAbs(sequence[i]))

analyzeGeometric(sequence) ==
    IF Len(sequence) < 2 THEN NotValid
    ELSE IF SomeNearZero(sequence)
    THEN NotValid
    ELSE LET ratios == RatioRow(sequence)
             firstRatio == ratios[1]
         IN IF AllWithinEpsilon(ratios)
            THEN Pattern("geometric", TRUE,
                         Mul(sequence[Len(sequence)], firstRatio),
                         Null, firstRatio, 0, NoTable,
                         sequence[1], sequence[Len(sequence)], Len(sequence))
            ELSE NotValid

analyzeFibonacci(sequence) ==
    IF Len(sequence) < 3 THEN NotValid
    ELSE IF \E i \in 3..Len(sequence) :
               GtEpsilon(MathAbs(Sub(sequence[i],
                                        Add(sequence[i - 1], sequence[i - 2]))))
    THEN NotValid
    ELSE Pattern("fibonacci", TRUE,
                 Add(sequence[Len(sequence)], sequence[Len(sequence) - 1]),
                 Null, Null, 0, NoTable, Null, Null, 0)

\* a bug: the depth reported as the degree
RECURSIVE findDifferencePattern_DepthAsDegree(_, _)
findDifferencePattern_DepthAsDegree(sequence, depth) ==
    IF Len(sequence) < 2 \/ depth > 5
    THEN [degree |-> 0, differences |-> NoTable]
    ELSE IF AllWithinEpsilon(DiffRow(sequence))
    THEN [degree |-> depth,
          differences |-> <<sequence>> \o [i \in 1..depth |-> DiffRow(sequence)]]
    ELSE findDifferencePattern_DepthAsDegree(DiffRow(sequence), depth + 1)

\* a bug: a row needs three elements, so that a single difference is not
\* taken for a constant row
RECURSIVE findDifferencePattern_NoSingleDifference(_, _)
findDifferencePattern_NoSingleDifference(sequence, depth) ==
    IF Len(sequence) < 3 \/ depth > 5
    THEN [degree |-> 0, differences |-> NoTable]
    ELSE IF AllWithinEpsilon(DiffRow(sequence))
    THEN [degree |-> depth + 1,
          differences |-> <<sequence>> \o [i \in 1..depth |-> DiffRow(sequence)]]
    ELSE findDifferencePattern_NoSingleDifference(DiffRow(sequence), depth + 1)

\* a bug: the search goes one depth further
RECURSIVE findDifferencePattern_DepthSix(_, _)
findDifferencePattern_DepthSix(sequence, depth) ==
    IF Len(sequence) < 2 \/ depth > 6
    THEN [degree |-> 0, differences |-> NoTable]
    ELSE IF AllWithinEpsilon(DiffRow(sequence))
    THEN [degree |-> depth + 1,
          differences |-> <<sequence>> \o [i \in 1..depth |-> DiffRow(sequence)]]
    ELSE findDifferencePattern_DepthSix(DiffRow(sequence), depth + 1)

\* the result is { degree, differences }; differences is the row the search
\* stopped at followed by depth copies of that row's differences
RECURSIVE findDifferencePattern(_, _)
findDifferencePattern(sequence, depth) ==
    IF Len(sequence) < 2 \/ depth > 5
    THEN [degree |-> 0, differences |-> NoTable]
    ELSE LET differences == DiffRow(sequence)
         IN IF AllWithinEpsilon(differences)
            THEN [degree |-> depth + 1,
                  differences |-> <<sequence>> \o [i \in 1..depth |-> differences]]
            ELSE findDifferencePattern(differences, depth + 1)

\* table = [sequence, diff(sequence), ...]: degree + 1 rows
RECURSIVE BuildTable(_, _)
BuildTable(current, degree) ==
    IF degree = 0 THEN <<current>>
    ELSE <<current>> \o BuildTable(DiffRow(current), degree - 1)

\* row i of the table after the last row was extended by its last value and
\* every row above it by the sum of its last value and the new value below
RECURSIVE ExtendedRow(_, _)
ExtendedRow(table, i) ==
    IF i = Len(table)
    THEN (IF Len(table[i]) > 0 THEN Append(table[i], LastOf(table[i]))
          ELSE table[i])
    ELSE Append(table[i], Add(LastOf(table[i]), LastOf(ExtendedRow(table, i + 1))))

\* table[0] is the caller's array itself, so the value pushed on it is pushed
\* on the caller's array: the result carries the array's contents afterwards
Predicted(row0) == [nextNumber |-> LastOf(row0), sequence |-> row0]

\* a bug: the loop that builds the table stops one row early
predictPolynomial_ShortTable(sequence, analysis) ==
    Predicted(ExtendedRow(BuildTable(sequence,
                                     IF analysis.degree > 0
                                     THEN analysis.degree - 1 ELSE 0), 1))

predictPolynomial(sequence, analysis) ==
    Predicted(ExtendedRow(BuildTable(sequence, analysis.degree), 1))

\* the result carries the pattern and the contents of the caller's array
\* after the call
\* the object returned for a valid polynomial; at degree 1 the first row of
\* analysis.differences is the caller's array, which by now holds the
\* predicted value as well
PolynomialPattern(analysis, predicted) ==
    [pattern |-> Pattern("polynomial", TRUE, predicted.nextNumber,
                         Null, Null, analysis.degree,
                         IF analysis.degree = 1
                         THEN <<predicted.sequence>>
                         ELSE analysis.differences,
                         Null, Null, 0),
     sequence |-> predicted.sequence]

PolynomialOf(sequence, analysis) ==
    IF analysis.degree > 0 /\ analysis.degree < 6
    THEN PolynomialPattern(analysis, predictPolynomial(sequence, analysis))
    ELSE [pattern |-> NotValid, sequence |-> sequence]

analyzePolynomial(sequence) ==
    IF Len(sequence) < 3 THEN [pattern |-> NotValid, sequence |-> sequence]
    ELSE PolynomialOf(sequence, findDifferencePattern(sequence, 0))

\* sequence is the contents of an array (the Array.isArray test is made by
\* the caller of this operator)
\* the first valid one of the four results, each computed only when the ones
\* before it are not valid
FirstValid(sequence, first, second, third, polynomial) ==
    IF first.isValid THEN [pattern |-> first, sequence |-> sequence]
    ELSE IF second.isValid THEN [pattern |-> second, sequence |-> sequence]
    ELSE IF third.isValid THEN [pattern |-> third, sequence |-> sequence]
    ELSE IF polynomial.pattern.isValid THEN polynomial
    ELSE [pattern |-> UnknownPattern, sequence |-> sequence]

\* a bug: arithmetic tried before Fibonacci
detectPattern_ArithmeticFirst(sequence) ==
    IF Len(sequence) < 2 THEN [pattern |-> InvalidPattern, sequence |-> sequence]
    ELSE FirstValid(sequence, analyzeArithmetic(sequence), analyzeFibonacci(sequence),
                    analyzeGeometric(sequence), analyzePolynomial(sequence))

detectPattern(sequence) ==
    IF Len(sequence) < 2 THEN [pattern |-> InvalidPattern, sequence |-> sequence]
    ELSE FirstValid(sequence, analyzeFibonacci(sequence), analyzeArithmetic(sequence),
                    analyzeGeometric(sequence), analyzePolynomial(sequence))

----------------------------------------------------------------------------
(* HistoricalAnalyzer and EnhancedEchoChamber                              *)
(* An argument of analyze is [type, ref]: type "array" with the heap       *)
(* address ref of the array, or the type of a value that is not an array   *)
(* (ref 0).  Stored entries hold the address of the caller's array.        *)

ArrayArg(ref) == [type |-> "array", ref |-> ref]
NonArrayArg(type) == [type |-> type, ref |-> 0]
NonArrayTypes == {"null", "number", "string", "object"}

\* a bug: the Array.isArray test left out
ArrayIsArray_Omitted(arg) == TRUE

ArrayIsArray(arg) == arg.type = "array"

NoError == "null"
NoSuggestions == "undefined"
ErrTooShort == "Sequence must be an array with at least 2 numbers"
ErrNotNumbers == "All sequence values must be valid numbers"
ErrNoPattern == "Could not detect a mathematical pattern in this sequence"
Suggestions == "Try sequences with: constant differences (arithmetic), constant ratios (geometric), or polynomial patterns"

\* the object analyze returns (sequence 0: the property is absent), or the
\* record of an exception leaving analyze
Outcome(success, sequence, nextNumber, pattern, error, suggestions) ==
    [threw |-> FALSE, success |-> success, sequence |-> sequence,
     nextNumber |-> nextNumber, pattern |-> pattern, error |-> error,
     suggestions |-> suggestions]

Thrown ==
    [threw |-> TRUE, success |-> FALSE, sequence |-> 0, nextNumber |-> Null,
     pattern |-> NullPattern, error |-> "TypeError", suggestions |-> NoSuggestions]

NoOutcome ==
    [threw |-> FALSE, success |-> FALSE, sequence |-> 0, nextNumber |-> Null,
     pattern |-> NullPattern, error |-> NoError, suggestions |-> NoSuggestions]

\* sequence.every(n => typeof n === 'number' && !isNaN(n))
AllValidNumbers(sequence) ==
    \A i \in 1..Len(sequence) : typeofNumber(sequence[i]) /\ ~isNaN(sequence[i])

\* a bug: the no-pattern test never taken
isNoPattern_Never(pattern) == FALSE

\* !pattern.isValid && pattern.type === 'unknown'
isNoPattern(pattern) == ~pattern.isValid /\ pattern.type = "unknown"

\* a bug: unshift in place of push
recordAnalysis_Prepend(hist, sequence, pattern, prediction) ==
    <<[sequence |-> sequence, pattern |-> pattern,
       prediction |-> prediction, id |-> Len(hist) + 1]>> \o hist

recordAnalysis(hist, sequence, pattern, prediction) ==
    Append(hist, [sequence |-> sequence, pattern |-> pattern,
                  prediction |-> prediction, id |-> Len(hist) + 1])

\* analyze on the chamber state (h, mem, hist): the value returned and the
\* state afterwards
\* the value analyze returns and the state it leaves behind
Returned(result, h, mem, hist) ==
    [result |-> result, heap |-> h, memories |-> mem, history |-> hist]

\* a bug: the analysis recorded in the history whether or not it is stored
analyzeDetected_AlwaysRecorded(h, mem, hist, arg, storeMemory, pattern) ==
    IF isNoPattern(pattern)
    THEN Returned(Outcome(FALSE, 0, Null, NullPattern, ErrNoPattern, Suggestions),
                  h, mem, hist)
    ELSE Returned(Outcome(TRUE, arg.ref, pattern.nextNumber, pattern,
                          NoError, NoSuggestions),
                  h,
                  IF storeMemory
                  THEN Append(mem, [sequence |-> arg.ref,
                                    prediction |-> pattern.nextNumber,
                                    patternType |-> pattern.type])
                  ELSE mem,
                  recordAnalysis(hist, arg.ref, pattern, pattern.nextNumber))

\* analyze from "Detect pattern" on: pattern is what detectPattern returned
\* and h the heap after it
analyzeDetected(h, mem, hist, arg, storeMemory, pattern) ==
    IF isNoPattern(pattern)
    THEN Returned(Outcome(FALSE, 0, Null, NullPattern, ErrNoPattern, Suggestions),
                  h, mem, hist)
    ELSE Returned(Outcome(TRUE, arg.ref, pattern.nextNumber, pattern,
                          NoError, NoSuggestions),
                  h,
                  IF storeMemory
                  THEN Append(mem, [sequence |-> arg.ref,
                                    prediction |-> pattern.nextNumber,
                                    patternType |-> pattern.type])
                  ELSE mem,
                  IF storeMemory
                  THEN recordAnalysis(hist, arg.ref, pattern, pattern.nextNumber)
                  ELSE hist)

analyzeValid(h, mem, hist, arg, storeMemory, detected) ==
    analyzeDetected([h EXCEPT ![arg.ref] = detected.sequence], mem, hist, arg,
                    storeMemory, detected.pattern)

\* analyze on the chamber state (h, mem, hist): the value returned and the
\* state afterwards
analyze(h, mem, hist, arg, storeMemory) ==
    IF ~ArrayIsArray(arg)
    THEN Returned(Outcome(FALSE, 0, Null, NullPattern, ErrTooShort, NoSuggestions),
                  h, mem, hist)
    ELSE IF arg.type # "array"
    \* sequence.length of null, sequence.every of a value that has none
    THEN Returned(Thrown, h, mem, hist)
    ELSE IF Len(h[arg.ref]) < 2
    THEN Returned(Outcome(FALSE, 0, Null, NullPattern, ErrTooShort, NoSuggestions),
                  h, mem, hist)
    ELSE IF ~AllValidNumbers(h[arg.ref])
    THEN Returned(Outcome(FALSE, 0, Null, NullPattern, ErrNotNumbers, NoSuggestions),
                  h, mem, hist)
    ELSE analyzeValid(h, mem, hist, arg, storeMemory, detectPattern(h[arg.ref]))

\* a bug: the history kept by a clear
clearHistory_Kept(hist) == hist

clearHistory(hist) == <<>>

\* An object used as a map from keys to counts is the sequence of its
\* [key, count] properties in insertion order, which is the order
\* Object.entries lists string keys in.

\* a bug: acc[type] = 1, the earlier count forgotten
Tally_NoIncrement(acc, type) ==
    IF \E i \in DOMAIN acc : acc[i].key = type
    THEN acc
    ELSE Append(acc, [key |-> type, count |-> 1])

\* acc[type] = (acc[type] || 0) + 1
Tally(acc, type) ==
    IF \E i \in DOMAIN acc : acc[i].key = type
    THEN [i \in DOMAIN acc |->
             IF acc[i].key = type
             THEN [key |-> type, count |-> acc[i].count + 1]
             ELSE acc[i]]
    ELSE Append(acc, [key |-> type, count |-> 1])

\* the counts after the first n of the types, taken in order
RECURSIVE TallyAll(_, _)
TallyAll(types, n) ==
    IF n = 0 THEN <<>> ELSE Tally(TallyAll(types, n - 1), types[n])

\* a string of digits with two decimals, "int.frac"
Decimal2(hundredths) == [int |-> hundredths \div 100, frac |-> hundredths % 100]

\* x.toFixed(2) for a finite x >= 0: the nearest multiple of 0.01, the
\* larger one when two are equally near
toFixed2(x) == Decimal2((200 * x[1] + x[2]) \div (2 * x[2]))

InsertAt(sorted, e, k) ==
    SubSeq(sorted, 1, k) \o <<e>> \o SubSeq(sorted, k + 1, Len(sorted))

\* a bug: a sort that puts the later of two entries of equal count first
RECURSIVE SortByCount_Unstable(_, _)
SortByCount_Unstable(entries, n) ==
    IF n = 0 THEN <<>>
    ELSE InsertAt(SortByCount_Unstable(entries, n - 1), entries[n],
                  Cardinality({i \in 1..(n - 1) :
                                  entries[i].count > entries[n].count}))

\* entries.sort((a, b) => b[1] - a[1]): descending by count, entries of
\* equal count keeping their order (the sort is stable)
RECURSIVE SortByCount(_, _)
SortByCount(entries, n) ==
    IF n = 0 THEN <<>>
    ELSE InsertAt(SortByCount(entries, n - 1), entries[n],
                  Cardinality({i \in 1..(n - 1) :
                                  entries[i].count >= entries[n].count}))

\* Object.entries(patternTypes).sort(...)[0]?.[0]
FirstKey(sorted) == IF sorted = <<>> THEN "undefined" ELSE sorted[1].key

\* the sum of entry.sequence.length over the first n entries
RECURSIVE TotalLength(_, _, _)
TotalLength(h, hist, n) ==
    IF n = 0 THEN 0 ELSE TotalLength(h, hist, n - 1) + Len(h[hist[n].sequence])

ValidCount(hist) == Cardinality({i \in DOMAIN hist : hist[i].pattern.isValid})

NotApplicable == [text |-> "N/A", value |-> Decimal2(0)]
Percent(x) == [text |-> "%", value |-> toFixed2(x)]

Statistics(totalAnalyzed, patternDistribution, averageSequenceLength, mostCommonPattern, successRate) ==
    [totalAnalyzed |-> totalAnalyzed, patternDistribution |-> patternDistribution,
     averageSequenceLength |-> averageSequenceLength,
     mostCommonPattern |-> mostCommonPattern, successRate |-> successRate]

\* the statistics over the history, given the counts per type
StatisticsOf(h, hist, patternTypes) ==
    Statistics(Len(hist),
               patternTypes,
               toFixed2(IF Len(hist) > 0
                        THEN Div(N(TotalLength(h, hist, Len(hist))), N(Len(hist)))
                        ELSE N(0)),
               FirstKey(SortByCount(patternTypes, Len(patternTypes))),
               IF Len(hist) > 0
               THEN Percent(Mul(Div(N(ValidCount(hist)), N(Len(hist))), N(100)))
               ELSE NotApplicable)

\* HistoricalAnalyzer.getStatistics, on the heap h
getStatistics(h, hist) ==
    StatisticsOf(h, hist,
                 TallyAll([i \in DOMAIN hist |-> hist[i].pattern.type], Len(hist)))

getHistoryAnalysis(h, hist) == getStatistics(h, hist)

getMemoryStats(mem) ==
    [totalMemories |-> Len(mem),
     patterns |-> TallyAll([i \in DOMAIN mem |-> mem[i].patternType], Len(mem))]

getMemories(mem) == mem

getFullHistory(hist) == hist

----------------------------------------------------------------------------
(* The chamber driven by a caller                                          *)

Seq4(a, b, c, d) == <<N(a), N(b), N(c), N(d)>>

\* the array literals the caller passes
CallerArrays ==
    { <<>>, <<N(5)>>,
      <<N(3), N(7)>>,
      Seq4(2, 4, 6, 8),
      <<N(2), N(6), N(18)>>,
      <<N(1), N(4), N(9), N(16)>>,
      Seq4(2, 3, 5, 7),
      <<N(1), N(1), N(2), N(3)>>,
      <<N(1), N(2), N(3)>>,
      <<N(0), N(1), N(0), N(0), N(1), N(0), N(0)>>,
      <<N(1), Str, N(3)>>,
      <<N(1), N(2), NaN>>,
      <<N(1), Infinity>>,
      <<Infinity, Infinity, Infinity>> }

Call(op, arg, storeMemory, before, result) ==
    [op |-> op, arg |-> arg, storeMemory |-> storeMemory, before |-> before,
     result |-> result]

Init ==
    /\ heap = <<>>
    /\ memories = <<>>
    /\ history = <<>>
    /\ lastCall = Call("new", NonArrayArg("null"), FALSE, <<>>, NoOutcome)
    /\ lastId = 0

\* chamber.analyze(arg, storeMemory) on the heap h
Completed(h, arg, storeMemory, r) ==
    /\ heap' = r.heap
    /\ memories' = r.memories
    /\ history' = r.history
    /\ lastCall' = Call("analyze", arg, storeMemory,
                        IF arg.ref \in DOMAIN h THEN h[arg.ref] ELSE <<>>,
                        r.result)
    /\ lastId' = IF Len(r.history) > Len(history)
                 THEN r.history[Len(r.history)].id
                 ELSE lastId

DoAnalyze(h, arg, storeMemory) ==
    Completed(h, arg, storeMemory, analyze(h, memories, history, arg, storeMemory))

\* analyze called with a new array literal
AnalyzeNew(elems, storeMemory) ==
    /\ Len(heap) < MaxArrays
    /\ Len(memories) < MaxMem
    /\ DoAnalyze(Append(heap, elems), ArrayArg(Len(heap) + 1), storeMemory)

\* analyze called again with an array the caller still holds
AnalyzeAgain(ref, storeMemory) ==
    /\ ref \in 1..Len(heap)
    /\ Len(heap[ref]) <= MaxSeqLen
    /\ Len(memories) < MaxMem
    /\ DoAnalyze(heap, ArrayArg(ref), storeMemory)

\* analyze called with a value that is not an array
AnalyzeNonArray(type, storeMemory) ==
    DoAnalyze(heap, NonArrayArg(type), storeMemory)

ClearMemories ==
    /\ memories' = <<>>
    /\ history' = clearHistory(history)
    /\ lastCall' = Call("clearMemories", NonArrayArg("null"), FALSE, <<>>, NoOutcome)
    /\ UNCHANGED <<heap, lastId>>

Next ==
    \/ \E elems \in CallerArrays, storeMemory \in BOOLEAN : AnalyzeNew(elems, storeMemory)
    \/ \E ref \in 1..MaxArrays, storeMemory \in BOOLEAN : AnalyzeAgain(ref, storeMemory)
    \/ \E type \in NonArrayTypes, storeMemory \in BOOLEAN : AnalyzeNonArray(type, storeMemory)
    \/ ClearMemories

Spec == Init /\ [][Next]_vars

----------------------------------------------------------------------------
(* The memory log: a caller holding one array of each kind, analysing them *)
(* in any order, with and without storage, and clearing                    *)

MaxLog == 3
MaxGrowth == 2

HeldArrays ==
    << Seq4(2, 4, 6, 8),
       <<N(1), N(2), N(4), N(8)>>,
       <<N(1), N(4), N(9), N(16)>>,
       <<N(0), N(1), N(0), N(0), N(1), N(0), N(0)>>,
       <<N(5)>> >>

InitLog ==
    /\ heap = HeldArrays
    /\ memories = <<>>
    /\ history = <<>>
    /\ lastCall = Call("new", NonArrayArg("null"), FALSE, <<>>, NoOutcome)
    /\ lastId = 0

\* analyze called with an array the caller holds
AnalyzeHeld(ref, storeMemory) ==
    /\ ref \in 1..Len(heap)
    /\ Len(heap[ref]) < Len(HeldArrays[ref]) + MaxGrowth
    /\ storeMemory => Len(memories) < MaxLog
    /\ DoAnalyze(heap, ArrayArg(ref), storeMemory)

NextLog ==
    \/ \E ref \in 1..Len(HeldArrays), storeMemory \in BOOLEAN : AnalyzeHeld(ref, storeMemory)
    \/ ClearMemories

SpecLog == InitLog /\ [][NextLog]_vars

----------------------------------------------------------------------------
(* Detection on its own: one array, drawn from the families the detectors  *)
(* are meant for, analysed once and then again                             *)

Terms == { Norm(p, q) : p \in (-MaxTerm)..MaxTerm, q \in 1..2 }

\* s[i] = a + i*d, i = 0..n-1
ArithmeticSeq(a, d, n) == [i \in 1..n |-> Add(a, Mul(N(i - 1), d))]

RECURSIVE Power(_, _)
Power(r, k) == IF k = 0 THEN N(1) ELSE Mul(r, Power(r, k - 1))

\* s[i] = a * r^i, i = 0..n-1
GeometricSeq(a, r, n) == [i \in 1..n |-> Mul(a, Power(r, i - 1))]

\* s[i] = (i+1)^k + c*(i+1), i = 0..n-1
PowerSeq(k, c, n) == [i \in 1..n |-> Add(Power(N(i), k), N(c * i))]

RECURSIVE SeqsOver(_, _)
SeqsOver(S, n) ==
    IF n = 0 THEN {<<>>}
    ELSE {Append(q, x) : q \in SeqsOver(S, n - 1), x \in S}

DetectInputs ==
    UNION { { ArithmeticSeq(a, d, n) : a \in Terms, d \in Terms } : n \in 2..MaxTerms }
    \cup UNION { { GeometricSeq(a, r, n) : a \in Terms \ {N(0)}, r \in Terms \ {N(0)} }
                 : n \in 2..(MaxTerms - 1) }
    \cup UNION { { PowerSeq(k, c, n) : k \in 0..MaxPower, c \in 0..1 } : n \in 3..(MaxPower + 2) }
    \cup UNION { SeqsOver({N(0), N(1)}, n) : n \in 0..MaxBinaryLen }
    \cup UNION { SeqsOver({N(1), N(2), N(3)}, n) : n \in 3..4 }
    \cup UNION { SeqsOver({MaxValue, Neg(MaxValue), N(5)}, n) : n \in 2..3 }
    \cup CallerArrays

InitDetect ==
    /\ heap \in { <<s>> : s \in DetectInputs }
    /\ memories = <<>>
    /\ history = <<>>
    /\ lastCall = Call("new", NonArrayArg("null"), FALSE, <<>>, NoOutcome)
    /\ lastId = 0

\* the first analyze call on the array
DetectFirst(storeMemory) ==
    /\ lastCall.op = "new"
    /\ DoAnalyze(heap, ArrayArg(1), storeMemory)

NextDetect ==
    \/ \E storeMemory \in BOOLEAN : DetectFirst(storeMemory)
    \/ \E storeMemory \in BOOLEAN : AnalyzeAgain(1, storeMemory)

SpecDetect == InitDetect /\ [][NextDetect]_vars

----------------------------------------------------------------------------
(* The original EchoChamber (arithmetic progressions only).  Its memory is *)
(* the variable memories; an entry holds the address of its own copy of    *)
(* the sequence.  history and lastId are not used by it.                   *)

MaxEchoHeap == 4
MaxPushLen == 4

ErrNotArray == "Sequence must be an array"
ErrTooFew == "Sequence must have at least 2 numbers"
ErrInvalidElements == "All elements must be valid numbers"
\* `Not an arithmetic progression. Found difference of ... but expected ...`
ErrNotProgression == "Not an arithmetic progression"

\* a bug: the test of the enhanced chamber, which lets Infinity through
AllFiniteNumbers_NotNaN(sequence) ==
    \A i \in 1..Len(sequence) : typeofNumber(sequence[i]) /\ ~isNaN(sequence[i])

\* sequence.every(num => typeof num === 'number' && isFinite(num))
AllFiniteNumbers(sequence) ==
    \A i \in 1..Len(sequence) : typeofNumber(sequence[i]) /\ isFinite(sequence[i])

Validation(isValid, difference, error) ==
    [isValid |-> isValid, difference |-> difference, error |-> error]

\* the loop over i = 2..length-1 finds a difference away from the first
SomeDifferenceOff(sequence) ==
    \E i \in 3..Len(sequence) :
        GtEpsilon(MathAbs(Sub(Sub(sequence[i], sequence[i - 1]),
                              Sub(sequence[2], sequence[1]))))

validateArithmeticProgression(h, arg) ==
    IF ~ArrayIsArray(arg) THEN Validation(FALSE, Null, ErrNotArray)
    ELSE IF Len(h[arg.ref]) < 2 THEN Validation(FALSE, Null, ErrTooFew)
    ELSE IF ~AllFiniteNumbers(h[arg.ref])
    THEN Validation(FALSE, Null, ErrInvalidElements)
    ELSE IF SomeDifferenceOff(h[arg.ref])
    THEN Validation(FALSE, Null, ErrNotProgression)
    ELSE Validation(TRUE, Sub(h[arg.ref][2], h[arg.ref][1]), NoError)

Prediction(nextNumber, success, error) ==
    [threw |-> FALSE, nextNumber |-> nextNumber, success |-> success, error |-> error]

PredictionOf(h, arg, validation) ==
    IF ~validation.isValid
    THEN Prediction(Null, FALSE, validation.error)
    ELSE Prediction(Add(LastOf(h[arg.ref]), validation.difference), TRUE, NoError)

predictNextNumber(h, arg) ==
    PredictionOf(h, arg, validateArithmeticProgression(h, arg))

\* the characters of the string a caller passes in place of an array
StringChars == <<Str, Str, Str>>

\* a bug: the sequence itself stored in place of a copy
Spread_Alias(h, arg) ==
    [heap |-> Append(h, IF arg.type = "array" THEN h[arg.ref] ELSE StringChars),
     ref |-> IF arg.type = "array" THEN arg.ref ELSE Len(h) + 1]

\* [...sequence]: a new array holding the elements of the array, or the
\* characters of the string
Spread(h, arg) ==
    [heap |-> Append(h, IF arg.type = "array" THEN h[arg.ref] ELSE StringChars),
     ref |-> Len(h) + 1]

EchoEntry(sequence, prediction) ==
    [threw |-> FALSE, sequence |-> sequence, prediction |-> prediction.nextNumber,
     success |-> prediction.success, error |-> prediction.error]

EchoThrown ==
    [threw |-> TRUE, sequence |-> 0, prediction |-> Null, success |-> FALSE,
     error |-> "TypeError"]

\* echo from the spread on: the entry pushed and returned
echoSpread(mem, prediction, copy) ==
    [result |-> EchoEntry(copy.ref, prediction),
     heap |-> copy.heap,
     memories |-> Append(mem, EchoEntry(copy.ref, prediction))]

\* EchoChamber.echo: the value returned and the state afterwards; spreading
\* a value that is not iterable throws before anything is pushed
echo(h, mem, arg) ==
    IF arg.type \in {"array", "string"}
    THEN echoSpread(mem, predictNextNumber(h, arg), Spread(h, arg))
    ELSE [result |-> EchoThrown, heap |-> h, memories |-> mem]

EchoCompleted(h, arg, r) ==
    /\ heap' = r.heap
    /\ memories' = r.memories
    /\ lastCall' = Call("echo", arg, FALSE,
                        IF arg.ref \in DOMAIN h THEN h[arg.ref] ELSE <<>>,
                        r.result)
    /\ UNCHANGED <<history, lastId>>

\* chamber.echo(s) with the caller's array
Echo ==
    /\ Len(heap) < MaxEchoHeap
    /\ EchoCompleted(heap, ArrayArg(1), echo(heap, memories, ArrayArg(1)))

\* chamber.echo(x) with a value that is not an array
EchoNonArray(type) ==
    /\ Len(heap) < MaxEchoHeap
    /\ EchoCompleted(heap, NonArrayArg(type), echo(heap, memories, NonArrayArg(type)))

\* chamber.predictNextNumber(x)
PredictNextNumber(arg) ==
    /\ lastCall' = Call("predictNextNumber", arg, FALSE,
                        IF arg.ref \in DOMAIN heap THEN heap[arg.ref] ELSE <<>>,
                        predictNextNumber(heap, arg))
    /\ UNCHANGED <<heap, memories, history, lastId>>

\* the caller pushes a value onto its own array
CallerPush(v) ==
    /\ Len(heap[1]) < MaxPushLen
    /\ heap' = [heap EXCEPT ![1] = Append(heap[1], v)]
    /\ lastCall' = Call("push", ArrayArg(1), FALSE, heap[1], NoOutcome)
    /\ UNCHANGED <<memories, history, lastId>>

\* EchoChamber.clearMemories
EchoClearMemories ==
    /\ memories' = <<>>
    /\ lastCall' = Call("clearMemories", NonArrayArg("null"), FALSE, <<>>, NoOutcome)
    /\ UNCHANGED <<heap, history, lastId>>

InitEcho ==
    /\ heap \in { <<s>> : s \in CallerArrays }
    /\ memories = <<>>
    /\ history = <<>>
    /\ lastCall = Call("new", NonArrayArg("null"), FALSE, <<>>, NoOutcome)
    /\ lastId = 0

NextEcho ==
    \/ Echo
    \/ \E type \in NonArrayTypes : EchoNonArray(type)
    \/ PredictNextNumber(ArrayArg(1))
    \/ \E v \in {N(9), Infinity} : CallerPush(v)
    \/ EchoClearMemories

SpecEcho == InitEcho /\ [][NextEcho]_vars

\* predictNextNumber on its own, over the input families
PredictInputs ==
    UNION { { ArithmeticSeq(a, d, n) : a \in Terms, d \in Terms } : n \in 2..MaxTerms }
    \cup UNION { SeqsOver({N(1), N(2), N(3)}, n) : n \in 3..4 }
    \cup UNION { SeqsOver({N(0), Infinity, NegInfinity, NaN, Str}, n) : n \in 0..3 }
    \cup CallerArrays

InitPredict ==
    /\ heap \in { <<s>> : s \in PredictInputs }
    /\ memories = <<>>
    /\ history = <<>>
    /\ lastCall = Call("new", NonArrayArg("null"), FALSE, <<>>, NoOutcome)
    /\ lastId = 0

NextPredict ==
    \/ PredictNextNumber(ArrayArg(1))
    \/ \E type \in NonArrayTypes : PredictNextNumber(NonArrayArg(type))

SpecPredict == InitPredict /\ [][NextPredict]_vars

----------------------------------------------------------------------------
(* Claims                                                                  *)

Analyzed == lastCall.op = "analyze"
OnArray == lastCall.arg.type = "array"
\* the argument passes analyze's validation as the code makes it
ValidatedInput ==
    /\ Analyzed /\ OnArray
    /\ Len(lastCall.before) >= 2
    /\ AllValidNumbers(lastCall.before)
\* the argument is an array of at least 2 finite numbers
FiniteInput ==
    /\ Analyzed /\ OnArray
    /\ Len(lastCall.before) >= 2
    /\ \A i \in 1..Len(lastCall.before) : isFinite(lastCall.before[i])

PatternTypes == {"arithmetic", "geometric", "polynomial", "fibonacci"}

\* C1 (as claimed): two analyze calls in a row without storage on the same
\* array return the same success flag, the same pattern (type and
\* parameters) and the same predicted next value.
C1_Determinism ==
    [][(/\ lastCall.op = "analyze" /\ lastCall'.op = "analyze"
        /\ lastCall.arg.type = "array" /\ lastCall'.arg = lastCall.arg
        /\ ~lastCall.storeMemory /\ ~lastCall'.storeMemory)
       => (/\ lastCall'.result.success = lastCall.result.success
           /\ lastCall'.result.pattern = lastCall.result.pattern
           /\ lastCall'.result.nextNumber = lastCall.result.nextNumber)]_vars

\* C2 (as claimed): analyze(sequence, false) leaves the memory log, the
\* history and every array as they were before the call, the argument array
\* included, and the outcome's sequence field holds the original elements.
C2_DetectionPure ==
    [][(lastCall'.op = "analyze" /\ ~lastCall'.storeMemory)
       => (/\ memories' = memories
           /\ history' = history
           /\ \A a \in DOMAIN heap : heap'[a] = heap[a]
           /\ lastCall'.arg.type = "array"
                 => heap'[lastCall'.arg.ref] = lastCall'.before
           /\ lastCall'.result.success
                 => heap'[lastCall'.result.sequence] = lastCall'.before)]_vars

\* C3 (as claimed): an argument that is not an array, has fewer than 2
\* elements or holds an element that is not a finite number (a non-number,
\* NaN, Infinity, -Infinity) gets the validation failure: success false,
\* nextNumber null, pattern null, a validation message, no suggestions.
C3_InvalidInput ==
    (Analyzed /\ ~FiniteInput)
       => (/\ ~lastCall.result.threw
           /\ ~lastCall.result.success
           /\ lastCall.result.nextNumber = Null
           /\ lastCall.result.pattern = NullPattern
           /\ lastCall.result.error \in {ErrTooShort, ErrNotNumbers}
           /\ lastCall.result.suggestions = NoSuggestions)

\* C4: analyze never throws: every call returns an outcome object, and when
\* a detector declines (the geometric guard on a near-zero term included)
\* the outcome is that of the detectors after it.
C4_NeverThrows ==
    /\ Analyzed => (~lastCall.result.threw /\ lastCall.result.success \in BOOLEAN)
    /\ (/\ ValidatedInput
        /\ \E i \in 1..Len(lastCall.before) : lastCall.before[i] = N(0)
        /\ ~analyzeFibonacci(lastCall.before).isValid
        /\ ~analyzeArithmetic(lastCall.before).isValid)
       => IF analyzePolynomial(lastCall.before).pattern.isValid
          THEN lastCall.result.success /\ lastCall.result.pattern.type = "polynomial"
          ELSE ~lastCall.result.success /\ lastCall.result.error = ErrNoPattern

\* a sequence with a zero term went through the geometric guard and all four
\* detectors declined: a failure outcome was returned
C4_Witness ==
    /\ ValidatedInput
    /\ \E i \in 1..Len(lastCall.before) : lastCall.before[i] = N(0)
    /\ ~lastCall.result.threw
    /\ lastCall.result.error = ErrNoPattern

\* C5: every outcome is well-formed.  Success: the type is one of the four
\* pattern types, nextNumber is a number equal to the pattern's predicted
\* value, error is null.  Failure: nextNumber and pattern are null and error
\* is a message; when no pattern was found the suggestion text is there too.
C5_WellFormed ==
    Analyzed =>
       /\ ~lastCall.result.threw
       /\ lastCall.result.success =>
             /\ lastCall.result.pattern.type \in PatternTypes
             /\ lastCall.result.pattern.isValid
             /\ typeofNumber(lastCall.result.nextNumber)
             /\ lastCall.result.nextNumber = lastCall.result.pattern.nextNumber
             /\ lastCall.result.error = NoError
       /\ ~lastCall.result.success =>
             /\ lastCall.result.nextNumber = Null
             /\ lastCall.result.pattern = NullPattern
             /\ lastCall.result.error \in {ErrTooShort, ErrNotNumbers, ErrNoPattern}
             /\ lastCall.result.error = ErrNoPattern
                   => lastCall.result.suggestions = Suggestions
             /\ ValidatedInput => lastCall.result.error = ErrNoPattern

\* a no-pattern failure carrying the suggestion text
C5_Witness ==
    /\ ValidatedInput
    /\ ~lastCall.result.success
    /\ lastCall.result.suggestions = Suggestions

\* the definitions of the patterns, stated on the sequence itself

\* a and b are equal within the tolerance
TolEq(a, b) == LtEpsilon(MathAbs(Sub(a, b)))

\* the consecutive differences of a row
RECURSIVE Differences(_)
Differences(row) ==
    IF Len(row) < 2 THEN <<>>
    ELSE <<Sub(row[2], row[1])>> \o Differences(Tail(row))

\* row m of the difference table of s, by repeated subtraction
RECURSIVE IteratedDifferences(_, _)
IteratedDifferences(s, m) ==
    IF m = 0 THEN s ELSE Differences(IteratedDifferences(s, m - 1))

AllFinite(row) == \A i \in 1..Len(row) : isFinite(row[i])

\* no subtraction in the difference table of s leaves the finite numbers
RECURSIVE FiniteBelow(_)
FiniteBelow(row) ==
    Len(row) < 2 \/ (AllFinite(Differences(row)) /\ FiniteBelow(Differences(row)))

FiniteDifferences(s) == FiniteBelow(s)

\* the elements of the row are all tolerance-equal to its first one
ConstantRow(row) == \A i \in 1..Len(row) : TolEq(row[i], row[1])

FibonacciLike(s) ==
    /\ Len(s) >= 3
    /\ \A i \in 3..Len(s) : TolEq(s[i], Add(s[i - 1], s[i - 2]))

ConstantDifference(s) ==
    /\ Len(s) >= 2
    /\ \A i \in 2..Len(s) : TolEq(Sub(s[i], s[i - 1]), Sub(s[2], s[1]))

NoTinyTerm(s) == \A i \in 1..Len(s) : ~LtEpsilon(MathAbs(s[i]))

ConstantRatio(s) ==
    /\ Len(s) >= 2
    /\ NoTinyTerm(s)
    /\ \A i \in 2..Len(s) : TolEq(Div(s[i], s[i - 1]), Div(s[2], s[1]))

\* the m-th forward difference of s at i
ForwardDifference(s, m, i) == IteratedDifferences(s, m)[i]

\* the m-th differences of s are all equal within the tolerance
ConstantAtOrder(s, m) == ConstantRow(IteratedDifferences(s, m))

\* the least degree of a polynomial through the terms of s: the least
\* order at which the differences are constant (the order Len(s) when an
\* overflow leaves none)
RECURSIVE DegreeFrom(_, _)
DegreeFrom(row, k) ==
    IF Len(row) = 0 \/ ConstantRow(row) THEN k
    ELSE DegreeFrom(Differences(row), k + 1)

MinimalDegree(s) == DegreeFrom(s, 0)

\* C6: the detectors are tried in the order Fibonacci, Arithmetic,
\* Geometric, Polynomial and the first valid result is returned; a sequence
\* that is Fibonacci-like and has a constant difference is reported as
\* fibonacci, one with a constant difference that is not Fibonacci-like as
\* arithmetic (never polynomial), and the no-pattern failure is returned
\* only when all four decline.
C6_DispatchOrder ==
    ValidatedInput =>
       /\ analyzeFibonacci(lastCall.before).isValid
             => lastCall.result.pattern = analyzeFibonacci(lastCall.before)
       /\ (/\ ~analyzeFibonacci(lastCall.before).isValid
           /\ analyzeArithmetic(lastCall.before).isValid)
             => lastCall.result.pattern = analyzeArithmetic(lastCall.before)
       /\ (/\ ~analyzeFibonacci(lastCall.before).isValid
           /\ ~analyzeArithmetic(lastCall.before).isValid
           /\ analyzeGeometric(lastCall.before).isValid)
             => lastCall.result.pattern = analyzeGeometric(lastCall.before)
       /\ (/\ ~analyzeFibonacci(lastCall.before).isValid
           /\ ~analyzeArithmetic(lastCall.before).isValid
           /\ ~analyzeGeometric(lastCall.before).isValid
           /\ analyzePolynomial(lastCall.before).pattern.isValid)
             => lastCall.result.pattern = analyzePolynomial(lastCall.before).pattern
       /\ ~lastCall.result.success
             <=> (/\ ~analyzeFibonacci(lastCall.before).isValid
                  /\ ~analyzeArithmetic(lastCall.before).isValid
                  /\ ~analyzeGeometric(lastCall.before).isValid
                  /\ ~analyzePolynomial(lastCall.before).pattern.isValid)
       /\ (FiniteInput /\ FibonacciLike(lastCall.before))
             => lastCall.result.pattern.type = "fibonacci"
       /\ (FiniteInput /\ ConstantDifference(lastCall.before)
                       /\ ~FibonacciLike(lastCall.before))
             => lastCall.result.pattern.type = "arithmetic"

\* a sequence that is both Fibonacci-like and arithmetic was reported as
\* fibonacci
C6_Witness ==
    /\ FiniteInput
    /\ FibonacciLike(lastCall.before)
    /\ ConstantDifference(lastCall.before)
    /\ lastCall.before[1] # N(0)
    /\ lastCall.result.pattern.type = "fibonacci"

\* s[i] = a + i*d with a = s[0] and d = s[1] - s[0], exactly
IsArithmeticSeq(s) ==
    /\ Len(s) >= 2
    /\ \A i \in 1..Len(s) : isFinite(s[i])
    /\ s = ArithmeticSeq(s[1], Sub(s[2], s[1]), Len(s))

\* the arithmetic result for a + i*d, i < n: difference d, next a + n*d
ArithmeticOutcome(s) ==
    /\ lastCall.result.success
    /\ lastCall.result.pattern.type = "arithmetic"
    /\ lastCall.result.pattern.commonDifference = Sub(s[2], s[1])
    /\ lastCall.result.nextNumber = Add(s[1], Mul(N(Len(s)), Sub(s[2], s[1])))

\* C7 (as claimed): every sequence a + i*d of length n >= 2 is detected as
\* arithmetic with commonDifference d and nextNumber a + n*d.
C7_ArithmeticRoundTrip ==
    (Analyzed /\ OnArray /\ IsArithmeticSeq(lastCall.before))
       => ArithmeticOutcome(lastCall.before)

\* C7 (amended): every sequence a + i*d of length n >= 2 is detected as
\* arithmetic with commonDifference d and nextNumber a + n*d, unless it is
\* also Fibonacci-like; then it is reported as fibonacci with nextNumber
\* last + second-to-last.
C7_ArithmeticRoundTripUnlessFibonacci ==
    (Analyzed /\ OnArray /\ IsArithmeticSeq(lastCall.before))
       => IF FibonacciLike(lastCall.before)
          THEN /\ lastCall.result.success
               /\ lastCall.result.pattern.type = "fibonacci"
               /\ lastCall.result.nextNumber =
                     Add(lastCall.before[Len(lastCall.before)],
                         lastCall.before[Len(lastCall.before) - 1])
          ELSE ArithmeticOutcome(lastCall.before)

\* a + i*d with d # 0 and three or more terms came back as arithmetic
C7_Witness ==
    /\ Analyzed /\ OnArray
    /\ IsArithmeticSeq(lastCall.before)
    /\ Len(lastCall.before) >= 3
    /\ lastCall.before[2] # lastCall.before[1]
    /\ ArithmeticOutcome(lastCall.before)

\* s[i] = a * r^i with a = s[0] and r = s[1] / s[0], |a| >= EPSILON and
\* |r| >= EPSILON, exactly
IsGeometricSeq(s) ==
    /\ Len(s) >= 2
    /\ \A i \in 1..Len(s) : isFinite(s[i])
    /\ ~LtEpsilon(MathAbs(s[1]))
    /\ ~LtEpsilon(MathAbs(Div(s[2], s[1])))
    /\ \A i \in 2..Len(s) : s[i] = Mul(s[i - 1], Div(s[2], s[1]))

\* the geometric result for a * r^i: ratio r, next last * r
GeometricOutcome(s) ==
    /\ lastCall.result.success
    /\ lastCall.result.pattern.type = "geometric"
    /\ lastCall.result.pattern.commonRatio = Div(s[2], s[1])
    /\ lastCall.result.nextNumber = Mul(s[Len(s)], Div(s[2], s[1]))

\* C8 (as claimed): every sequence a * r^i of length n >= 2 with
\* |a| >= EPSILON and |r| >= EPSILON is detected as geometric with
\* commonRatio r and nextNumber last * r.
C8_GeometricRoundTrip ==
    (Analyzed /\ OnArray /\ IsGeometricSeq(lastCall.before))
       => GeometricOutcome(lastCall.before)

\* C8 (amended): such a sequence is detected as geometric with commonRatio
\* r and nextNumber last * r provided every term has magnitude >= EPSILON
\* and neither the Fibonacci nor the arithmetic detector accepts it first;
\* with n = 2 or r = 1, and a difference that does not overflow, the
\* arithmetic detector does (or the Fibonacci one), and the sequence is not
\* reported as geometric.
C8_GeometricRoundTripUnlessEarlier ==
    (Analyzed /\ OnArray /\ IsGeometricSeq(lastCall.before))
       => /\ (/\ NoTinyTerm(lastCall.before)
              /\ ~FibonacciLike(lastCall.before)
              /\ ~ConstantDifference(lastCall.before))
                => GeometricOutcome(lastCall.before)
          /\ (/\ Len(lastCall.before) = 2 \/ lastCall.before[2] = lastCall.before[1]
              /\ FiniteDifferences(lastCall.before))
                => /\ lastCall.result.success
                   /\ lastCall.result.pattern.type \in {"arithmetic", "fibonacci"}

\* a * r^i with a fractional ratio and three or more terms came back as
\* geometric
C8_Witness ==
    /\ Analyzed /\ OnArray
    /\ IsGeometricSeq(lastCall.before)
    /\ Len(lastCall.before) >= 3
    /\ Div(lastCall.before[2], lastCall.before[1])[2] = 2
    /\ GeometricOutcome(lastCall.before)

\* the outcome for a sequence of minimal degree k: polynomial of degree k
\* when k <= 5, the no-pattern failure when k >= 6
DegreeOutcome(s) ==
    IF MinimalDegree(s) <= 5
    THEN /\ lastCall.result.success
         /\ lastCall.result.pattern.degree = MinimalDegree(s)
    ELSE /\ ~lastCall.result.success
         /\ lastCall.result.error = ErrNoPattern

\* C9 (as claimed): a sequence of minimal degree k <= 5 is detected with
\* reported degree k, and one that requires degree >= 6 yields the
\* no-pattern failure.
C9_DegreeBound == FiniteInput => DegreeOutcome(lastCall.before)

\* C9 (amended): the same, for the sequences with a finite difference table
\* that the Fibonacci, arithmetic and geometric detectors all decline (their
\* minimal degree is then >= 2): degree k for 2 <= k <= 5 with type
\* polynomial, the no-pattern failure for k >= 6.
C9_DegreeBoundWhenOthersDecline ==
    (/\ FiniteInput
     /\ FiniteDifferences(lastCall.before)
     /\ ~FibonacciLike(lastCall.before)
     /\ ~ConstantDifference(lastCall.before)
     /\ ~ConstantRatio(lastCall.before))
       => /\ DegreeOutcome(lastCall.before)
          /\ MinimalDegree(lastCall.before) >= 2
          /\ lastCall.result.success => lastCall.result.pattern.type = "polynomial"

\* a sequence of minimal degree 5 with more terms than a degree-5 fit needs
\* came back as polynomial of degree 5
C9_Witness ==
    /\ FiniteInput
    /\ Len(lastCall.before) >= 7
    /\ MinimalDegree(lastCall.before) = 5
    /\ lastCall.result.pattern.type = "polynomial"
    /\ lastCall.result.pattern.degree = 5

Primes == Seq4(2, 3, 5, 7)

\* C10 (as claimed): analyze([2,3,5,7]) fails with the no-pattern error:
\* success false, nextNumber null, error and suggestion present.
C10_PrimesUnknown ==
    (Analyzed /\ OnArray /\ lastCall.before = Primes)
       => /\ ~lastCall.result.success
          /\ lastCall.result.nextNumber = Null
          /\ lastCall.result.error = ErrNoPattern
          /\ lastCall.result.suggestions = Suggestions

\* C10 (amended): analyze([2,3,5,7]) succeeds as a polynomial of degree 3
\* with nextNumber 8: the differences (1,2,2) and (1,0) are not constant,
\* the ratios are not constant and 7 # 5 + 3, but the third-difference row
\* (-1) has a single element and so counts as constant.
C10_PrimesPolynomial ==
    (Analyzed /\ OnArray /\ lastCall.before = Primes)
       => /\ DiffRow(Primes) = <<N(1), N(2), N(2)>>
          /\ DiffRow(DiffRow(Primes)) = <<N(1), N(0)>>
          /\ DiffRow(DiffRow(DiffRow(Primes))) = <<N(-1)>>
          /\ ~ConstantDifference(Primes) /\ ~ConstantRatio(Primes)
          /\ ~FibonacciLike(Primes)
          /\ lastCall.result.success
          /\ lastCall.result.pattern.type = "polynomial"
          /\ lastCall.result.pattern.degree = 3
          /\ lastCall.result.nextNumber = N(8)
          /\ lastCall.result.error = NoError

\* analyze([2,3,5,7]) has returned
C10_Witness ==
    /\ Analyzed /\ OnArray
    /\ lastCall.before = Primes
    /\ lastCall.result.success

----------------------------------------------------------------------------
(* Claims on the memory log and the statistics                             *)

\* the call stored an entry: it succeeded with storeMemory true
StoredSuccess(call) ==
    call.op = "analyze" /\ call.result.success /\ call.storeMemory

\* C11: an analyze call that succeeds with storeMemory true appends exactly
\* one entry at the end of the memory log and one at the end of the
\* history, the earlier entries staying in place and in order; a call with
\* storeMemory false, or one that fails, leaves both unchanged.
C11_AppendOnStoredSuccess ==
    [][lastCall'.op = "analyze" =>
         IF lastCall'.result.success /\ lastCall'.storeMemory
         THEN /\ getMemories(memories') =
                    Append(getMemories(memories),
                           [sequence |-> lastCall'.arg.ref,
                            prediction |-> lastCall'.result.nextNumber,
                            patternType |-> lastCall'.result.pattern.type])
              /\ Len(history') = Len(history) + 1
              /\ SubSeq(history', 1, Len(history)) = history
              /\ history'[Len(history')].sequence = lastCall'.arg.ref
              /\ history'[Len(history')].pattern = lastCall'.result.pattern
              /\ history'[Len(history')].prediction = lastCall'.result.nextNumber
         ELSE memories' = memories /\ history' = history]_vars

\* a third entry, of another type than the first, has been appended
C11_Witness ==
    /\ StoredSuccess(lastCall)
    /\ Len(memories) = 3 /\ Len(history) = 3
    /\ memories[1].patternType # memories[3].patternType

\* C12 (as claimed): the sequence of a stored entry is a snapshot: at
\* creation it holds the elements that were submitted, and no later analyze
\* call changes the sequence of an entry already in the log or the history.
C12_Snapshot ==
    [][lastCall'.op = "analyze" =>
         /\ \A i \in DOMAIN memories :
               heap'[memories[i].sequence] = heap[memories[i].sequence]
         /\ \A i \in DOMAIN history :
               heap'[history[i].sequence] = heap[history[i].sequence]
         /\ StoredSuccess(lastCall') =>
               /\ heap'[memories'[Len(memories')].sequence] = lastCall'.before
               /\ heap'[history'[Len(history')].sequence] = lastCall'.before]_vars

\* C13 (as claimed): an entry recorded later has a strictly larger id than
\* every entry recorded earlier, also across a clear.
C13_IdsIncrease ==
    [][StoredSuccess(lastCall') /\ Len(history') > 0
          => history'[Len(history')].id > lastId]_vars

\* C14: clearMemories can be called in every state, and after it
\* getMemories() and getFullHistory() are empty and the totals are 0,
\* whether the log was empty before or not.
C14_ClearEmpties ==
    /\ ENABLED ClearMemories
    /\ lastCall.op = "clearMemories" =>
          /\ getMemories(memories) = <<>>
          /\ getFullHistory(history) = <<>>
          /\ getMemoryStats(memories).totalMemories = 0
          /\ getHistoryAnalysis(heap, history).totalAnalyzed = 0

\* a log that held entries has been cleared
C14_Witness ==
    /\ lastCall.op = "clearMemories"
    /\ lastId >= 2
    /\ memories = <<>> /\ history = <<>>

\* the count the map holds for a key, 0 when the key is absent
CountIn(map, key) ==
    IF \E i \in DOMAIN map : map[i].key = key
    THEN (CHOOSE e \in {map[i] : i \in DOMAIN map} : e.key = key).count
    ELSE 0

RECURSIVE SumOfCounts(_, _)
SumOfCounts(map, n) ==
    IF n = 0 THEN 0 ELSE SumOfCounts(map, n - 1) + map[n].count

StoredOfType(t) == Cardinality({i \in DOMAIN memories : memories[i].patternType = t})

\* C15: totalMemories equals the length of the log and totalAnalyzed, and
\* the count of each pattern type in getMemoryStats().patterns is the
\* number of stored entries of that type, the counts summing to the total.
C15_StatsAgree ==
    /\ getMemoryStats(memories).totalMemories = Len(getMemories(memories))
    /\ getMemoryStats(memories).totalMemories =
          getHistoryAnalysis(heap, history).totalAnalyzed
    /\ \A t \in PatternTypes \cup {"unknown", "invalid", "undefined"} :
          CountIn(getMemoryStats(memories).patterns, t) = StoredOfType(t)
    /\ \A i, j \in DOMAIN getMemoryStats(memories).patterns :
          getMemoryStats(memories).patterns[i].key =
             getMemoryStats(memories).patterns[j].key => i = j
    /\ SumOfCounts(getMemoryStats(memories).patterns,
                   Len(getMemoryStats(memories).patterns)) = Len(memories)

\* three entries of two types: counts 2 and 1
C15_Witness ==
    /\ Len(memories) = 3
    /\ \E t \in PatternTypes :
          CountIn(getMemoryStats(memories).patterns, t) = 2

\* C16: successRate is '100.00%' whenever the history is not empty and
\* 'N/A' when it is empty.
C16_SuccessRate ==
    getHistoryAnalysis(heap, history).successRate =
       IF history = <<>>
       THEN [text |-> "N/A", value |-> [int |-> 0, frac |-> 0]]
       ELSE [text |-> "%", value |-> [int |-> 100, frac |-> 0]]

\* a failed call came after two stored ones and the rate is still 100.00%
C16_Witness ==
    /\ Analyzed /\ ~lastCall.result.success
    /\ lastCall.result.error = ErrNoPattern
    /\ Len(history) >= 2
    /\ getHistoryAnalysis(heap, history).successRate.value.int = 100

RecordedOfType(t) ==
    Cardinality({i \in DOMAIN history : history[i].pattern.type = t})

\* the position of the first recorded entry of type t
FirstRecorded(t) ==
    CHOOSE i \in DOMAIN history :
        /\ history[i].pattern.type = t
        /\ \A j \in 1..(i - 1) : history[j].pattern.type # t

RecordedTypes == {history[i].pattern.type : i \in DOMAIN history}

\* C17: mostCommonPattern is a type with the maximum count in the history,
\* and among the types with that count the one recorded first.
C17_MostCommon ==
    IF history = <<>>
    THEN getHistoryAnalysis(heap, history).mostCommonPattern = "undefined"
    ELSE /\ getHistoryAnalysis(heap, history).mostCommonPattern \in RecordedTypes
         /\ \A t \in RecordedTypes :
               /\ RecordedOfType(t) <=
                     RecordedOfType(getHistoryAnalysis(heap, history).mostCommonPattern)
               /\ RecordedOfType(t) =
                     RecordedOfType(getHistoryAnalysis(heap, history).mostCommonPattern)
                  => FirstRecorded(getHistoryAnalysis(heap, history).mostCommonPattern)
                        <= FirstRecorded(t)

\* two types share the maximum count and the one recorded first is reported
C17_Witness ==
    /\ Len(history) >= 2
    /\ \E t \in RecordedTypes :
          /\ t # history[1].pattern.type
          /\ RecordedOfType(t) = RecordedOfType(history[1].pattern.type)
    /\ \A t \in RecordedTypes :
          RecordedOfType(t) <= RecordedOfType(history[1].pattern.type)
    /\ getHistoryAnalysis(heap, history).mostCommonPattern = history[1].pattern.type

\* C18 (as claimed): averageSequenceLength is the mean of the lengths of the
\* sequences submitted in the stored successful calls since the last clear,
\* 0 when there is none: each stored successful call adds the length of the
\* sequence it was given to the total, and no other analyze call changes
\* the average.
C18_AverageLength ==
    [][lastCall'.op = "analyze" =>
         IF StoredSuccess(lastCall')
         THEN /\ TotalLength(heap', history', Len(history')) =
                    TotalLength(heap, history, Len(history)) + Len(lastCall'.before)
              /\ getHistoryAnalysis(heap', history').averageSequenceLength =
                    toFixed2(Div(N(TotalLength(heap, history, Len(history))
                                      + Len(lastCall'.before)),
                                 N(Len(history) + 1)))
         ELSE getHistoryAnalysis(heap', history').averageSequenceLength =
                 getHistoryAnalysis(heap, history).averageSequenceLength]_vars

----------------------------------------------------------------------------
(* Claims on the original EchoChamber                                      *)

WithinEpsilon(a, b) == ~GtEpsilon(MathAbs(Sub(a, b)))

\* an array of at least 2 finite numbers whose consecutive differences all
\* equal the first one within EPSILON
IsProgression(arg, s) ==
    /\ arg.type = "array"
    /\ Len(s) >= 2
    /\ \A i \in 1..Len(s) : isFinite(s[i])
    /\ \A i \in 2..Len(s) : WithinEpsilon(Sub(s[i], s[i - 1]), Sub(s[2], s[1]))

\* C19: predictNextNumber(s) returns success with nextNumber = last element
\* + (s[1] - s[0]) and error null exactly when s is an array of at least 2
\* finite numbers with a constant difference; for every other input it
\* returns success false, nextNumber null and an error, and
\* validateArithmeticProgression returns isValid false, difference null.
C19_PredictNextNumber ==
    lastCall.op = "predictNextNumber" =>
       IF IsProgression(lastCall.arg, lastCall.before)
       THEN /\ lastCall.result.success
            /\ lastCall.result.nextNumber =
                  Add(lastCall.before[Len(lastCall.before)],
                      Sub(lastCall.before[2], lastCall.before[1]))
            /\ lastCall.result.error = NoError
            /\ validateArithmeticProgression(heap, lastCall.arg).isValid
       ELSE /\ ~lastCall.result.success
            /\ lastCall.result.nextNumber = Null
            /\ lastCall.result.error # NoError
            /\ ~validateArithmeticProgression(heap, lastCall.arg).isValid
            /\ validateArithmeticProgression(heap, lastCall.arg).difference = Null

\* a progression of three or more terms with a fractional difference was
\* extended
C19_Witness ==
    /\ lastCall.op = "predictNextNumber"
    /\ IsProgression(lastCall.arg, lastCall.before)
    /\ Len(lastCall.before) >= 3
    /\ Sub(lastCall.before[2], lastCall.before[1])[2] = 2
    /\ lastCall.result.success

\* C20: a new chamber has an empty memory; every echo on an array appends
\* exactly one entry, valid progression or not (an invalid one is stored
\* with success false and prediction null); the stored sequence is a copy
\* of the input, which a later push by the caller does not change; and
\* clearMemories empties the memory.  The memory length is therefore the
\* number of echo calls since the last clear.
C20_EchoMemory ==
    /\ memories = <<>>
    /\ [][/\ (lastCall'.op = "echo" /\ lastCall'.arg.type = "array") =>
               /\ Len(memories') = Len(memories) + 1
               /\ SubSeq(memories', 1, Len(memories)) = memories
               /\ memories'[Len(memories')].sequence # lastCall'.arg.ref
               /\ heap'[memories'[Len(memories')].sequence] = lastCall'.before
               /\ heap'[lastCall'.arg.ref] = lastCall'.before
               /\ memories'[Len(memories')].success =
                     IsProgression(lastCall'.arg, lastCall'.before)
               /\ ~memories'[Len(memories')].success =>
                     /\ memories'[Len(memories')].prediction = Null
                     /\ memories'[Len(memories')].error # NoError
          /\ lastCall'.op = "clearMemories" => memories' = <<>>
          /\ lastCall'.op \in {"push", "predictNextNumber"} =>
               /\ memories' = memories
               /\ \A i \in DOMAIN memories :
                     heap'[memories[i].sequence] = heap[memories[i].sequence]]_vars

\* an echo that is not a progression has been stored as the second entry,
\* and the caller's array has changed since the first
C20_Witness ==
    /\ lastCall.op = "echo" /\ lastCall.arg.type = "array"
    /\ ~lastCall.result.success
    /\ Len(memories) = 2
    /\ heap[memories[1].sequence] # heap[1]
    /\ memories[2].prediction = Null

----------------------------------------------------------------------------
(* The detectors of SequenceAnalyzer on their own: one array of numbers,   *)
(* handed once to one of the static methods                                *)

\* numbers that pass analyze's validation without being finite
NonFiniteInputs ==
    { <<N(1), Infinity>>, <<Infinity, Infinity>>,
      <<Infinity, Infinity, Infinity>>, <<N(1), N(2), Infinity>>,
      <<NegInfinity, Infinity, NegInfinity>>, <<N(0), Infinity, Infinity>> }

\* sequences whose last term lies one or two EPSILONs beside a sequence the
\* detectors accept
BoundaryInputs ==
    { <<N(0), N(0), Eps(1)>>, <<N(0), N(0), Eps(2)>>, <<N(0), N(0), Eps(-1)>>,
      <<N(1), N(1), WithEpsilon(N(1), 1)>>, <<N(1), N(1), WithEpsilon(N(1), 2)>>,
      <<N(1), N(1), N(1), WithEpsilon(N(1), 1)>> }

\* sequences longer than the difference search is deep
LongInputs ==
    { <<N(2), N(3), N(5), N(7), N(11), N(13), N(17), N(19), N(23), N(29)>>,
      <<N(0), N(1), N(0), N(0), N(1), N(0), N(0), N(1), N(0), N(0)>>,
      PowerSeq(7, 0, 9),
      PowerSeq(MaxPower, 0, MaxPower + 4) }

\* sequences of the test suite
SuiteInputs ==
    { Seq4(100, 100, 100, 100), Seq4(3, 6, 9, 12), Seq4(2, 6, 18, 54),
      <<N(1), N(1), N(2), N(3), N(5), N(8)>>, <<N(2), N(5), N(10), N(17), N(26)>>,
      <<N(2), N(0)>>, <<N(0), N(2)>>, <<N(1), N(0), N(0)>>, <<N(4), N(2), N(0)>>,
      <<N(2), N(0), N(0)>>, <<N(3), N(0)>> }

\* the detectors are reached through analyze, which lets arrays of numbers
\* other than NaN through
AnalyzerInputs ==
    { s \in DetectInputs \cup NonFiniteInputs \cup BoundaryInputs \cup LongInputs
              \cup SuiteInputs : AllValidNumbers(s) }

InitAnalyzer ==
    /\ heap \in { <<s>> : s \in AnalyzerInputs }
    /\ memories = <<>>
    /\ history = <<>>
    /\ lastCall = Call("new", NonArrayArg("null"), FALSE, <<>>, NoOutcome)
    /\ lastId = 0

\* a static method that leaves its argument alone, called on the array
Detected(op, result) ==
    /\ lastCall.op = "new"
    /\ lastCall' = Call(op, ArrayArg(1), FALSE, heap[1], result)
    /\ UNCHANGED <<heap, memories, history, lastId>>

CallArithmetic == Detected("analyzeArithmetic", analyzeArithmetic(heap[1]))

CallGeometric == Detected("analyzeGeometric", analyzeGeometric(heap[1]))

CallFibonacci == Detected("analyzeFibonacci", analyzeFibonacci(heap[1]))

CallFindDifferencePattern ==
    Detected("findDifferencePattern", findDifferencePattern(heap[1], 0))

\* analyzePolynomial and detectPattern leave the array as predictPolynomial
\* left it
DetectedOnArray(op, r) ==
    /\ lastCall.op = "new"
    /\ lastCall' = Call(op, ArrayArg(1), FALSE, heap[1], r.pattern)
    /\ heap' = <<r.sequence>>
    /\ UNCHANGED <<memories, history, lastId>>

CallPolynomial == DetectedOnArray("analyzePolynomial", analyzePolynomial(heap[1]))

CallDetectPattern == DetectedOnArray("detectPattern", detectPattern(heap[1]))

\* a bug: the recursion ends only when the row runs out
RECURSIVE findDifferenceCalls_NoDepthLimit(_, _)
findDifferenceCalls_NoDepthLimit(sequence, depth) ==
    <<depth>> \o
      (IF Len(sequence) < 2 \/ AllWithinEpsilon(DiffRow(sequence)) THEN <<>>
       ELSE findDifferenceCalls_NoDepthLimit(DiffRow(sequence), depth + 1))

\* the depths of the calls of findDifferencePattern that one call at the
\* given depth makes, itself included, in the order they are entered
RECURSIVE findDifferenceCalls(_, _)
findDifferenceCalls(sequence, depth) ==
    <<depth>> \o
      (IF Len(sequence) < 2 \/ depth > 5 THEN <<>>
       ELSE IF AllWithinEpsilon(DiffRow(sequence)) THEN <<>>
       ELSE findDifferenceCalls(DiffRow(sequence), depth + 1))

\* the detectors detectPattern calls, in the order it calls them
detectorCalls(sequence) ==
    IF Len(sequence) < 2 THEN <<>>
    ELSE IF analyzeFibonacci(sequence).isValid THEN <<"analyzeFibonacci">>
    ELSE IF analyzeArithmetic(sequence).isValid
    THEN <<"analyzeFibonacci", "analyzeArithmetic">>
    ELSE IF analyzeGeometric(sequence).isValid
    THEN <<"analyzeFibonacci", "analyzeArithmetic", "analyzeGeometric">>
    ELSE <<"analyzeFibonacci", "analyzeArithmetic", "analyzeGeometric",
           "analyzePolynomial">>

\* the calls of findDifferencePattern made within detectPattern
differenceCalls(sequence, detectors) ==
    IF Len(detectors) = 4 /\ Len(sequence) >= 3
    THEN findDifferenceCalls(sequence, 0) ELSE <<>>

\* the result of detectPattern together with the calls it made
Traced(r, detectors, depths) ==
    [pattern |-> [pattern |-> r.pattern, detectors |-> detectors, depths |-> depths],
     sequence |-> r.sequence]

TracedDetection(sequence, detectors) ==
    Traced(detectPattern(sequence), detectors, differenceCalls(sequence, detectors))

\* detectPattern(sequence), with its calls recorded
TraceDetectPattern ==
    DetectedOnArray("detectPattern calls",
                    TracedDetection(heap[1], detectorCalls(heap[1])))

\* the number predictPolynomial returns for the analysis, kept with the
\* degree it was asked for, and the array as the call leaves it
PredictionFor(analysis, predicted) ==
    [pattern |-> [nextNumber |-> predicted.nextNumber, degree |-> analysis.degree],
     sequence |-> predicted.sequence]

PredictWith(sequence, analysis) ==
    PredictionFor(analysis, predictPolynomial(sequence, analysis))

\* predictPolynomial(sequence, findDifferencePattern(sequence))
CallPredictPolynomial ==
    /\ Len(heap[1]) >= 2
    /\ DetectedOnArray("predictPolynomial",
                       PredictWith(heap[1], findDifferencePattern(heap[1], 0)))

NextAnalyzer ==
    \/ CallArithmetic
    \/ CallGeometric
    \/ CallFibonacci
    \/ CallFindDifferencePattern
    \/ CallPolynomial
    \/ CallDetectPattern
    \/ CallPredictPolynomial
    \/ TraceDetectPattern

SpecAnalyzer == InitAnalyzer /\ [][NextAnalyzer]_vars

----------------------------------------------------------------------------
(* Claims about the single detectors                                       *)

Called(op) == lastCall.op = op

\* C21: for a sequence of length >= 2 analyzeArithmetic reports valid if and
\* only if every consecutive difference is tolerance-equal to the first one;
\* on success commonDifference is the first difference and nextNumber is
\* the last element plus the first difference.
C21_Arithmetic ==
    (Called("analyzeArithmetic") /\ Len(lastCall.before) >= 2) =>
        /\ lastCall.result.isValid <=> ConstantDifference(lastCall.before)
        /\ lastCall.result.isValid =>
            /\ lastCall.result.type = "arithmetic"
            /\ lastCall.result.commonDifference
                 = Sub(lastCall.before[2], lastCall.before[1])
            /\ lastCall.result.nextNumber
                 = Add(LastOf(lastCall.before),
                       Sub(lastCall.before[2], lastCall.before[1]))

\* the constant sequence [100, 100, 100, 100] is arithmetic with difference
\* 0 and next number 100
C21_Witness ==
    /\ Called("analyzeArithmetic")
    /\ lastCall.before = Seq4(100, 100, 100, 100)
    /\ lastCall.result.isValid
    /\ lastCall.result.commonDifference = N(0)
    /\ lastCall.result.nextNumber = N(100)

\* C22: analyzeGeometric reports invalid whenever some term (first, middle
\* or last) has a magnitude below EPSILON; otherwise, for at least two terms,
\* it reports valid if and only if every consecutive ratio is tolerance-equal
\* to the first one; on success commonRatio is the first ratio and
\* nextNumber is the last element times the first ratio.
C22_Geometric ==
    Called("analyzeGeometric") =>
        /\ ~NoTinyTerm(lastCall.before) => ~lastCall.result.isValid
        /\ lastCall.result.isValid <=> ConstantRatio(lastCall.before)
        /\ lastCall.result.isValid =>
            /\ lastCall.result.type = "geometric"
            /\ lastCall.result.commonRatio
                 = Div(lastCall.before[2], lastCall.before[1])
            /\ lastCall.result.nextNumber
                 = Mul(LastOf(lastCall.before),
                       Div(lastCall.before[2], lastCall.before[1]))

\* [3, 0] has the single ratio 0 and a last term of magnitude below EPSILON:
\* it is declined
C22_Witness ==
    /\ Called("analyzeGeometric")
    /\ lastCall.before = <<N(3), N(0)>>
    /\ ~lastCall.result.isValid

\* C23 (as claimed): analyzeFibonacci reports invalid for every sequence
\* shorter than 3; for length >= 3 it reports valid if and only if every
\* term from the third on is tolerance-equal to the sum of the two terms
\* before it; on success nextNumber is the last element plus the one
\* before it.
C23_Fibonacci ==
    Called("analyzeFibonacci") =>
        /\ Len(lastCall.before) < 3 => ~lastCall.result.isValid
        /\ lastCall.result.isValid <=> FibonacciLike(lastCall.before)
        /\ lastCall.result.isValid =>
            lastCall.result.nextNumber
              = Add(LastOf(lastCall.before),
                    lastCall.before[Len(lastCall.before) - 1])

\* a and b differ by exactly EPSILON
DiffersByEpsilon(a, b) == MathAbs(Sub(a, b)) = Eps(1)

\* C24 (as claimed): every detector uses the one rule |a - b| < EPSILON, so
\* that two compared values which differ by exactly EPSILON count as
\* different: a difference beside the first difference, a ratio beside the
\* first ratio, a difference of the row the degree search stops at beside
\* that row's first difference, a term beside the sum of the two terms
\* before it; none of the four checks then accepts.
C24_OneToleranceRule ==
    /\ Called("analyzeArithmetic") =>
         ((\E i \in 2..Len(lastCall.before) :
              DiffersByEpsilon(Sub(lastCall.before[i], lastCall.before[i - 1]),
                               Sub(lastCall.before[2], lastCall.before[1])))
            => ~lastCall.result.isValid)
    /\ Called("analyzeGeometric") =>
         ((/\ NoTinyTerm(lastCall.before)
           /\ \E i \in 2..Len(lastCall.before) :
                DiffersByEpsilon(Div(lastCall.before[i], lastCall.before[i - 1]),
                                 Div(lastCall.before[2], lastCall.before[1])))
            => ~lastCall.result.isValid)
    /\ Called("findDifferencePattern") =>
         \A k \in 1..(Len(lastCall.before) - 1) :
            ((\E i \in 1..(Len(lastCall.before) - k) :
                 DiffersByEpsilon(ForwardDifference(lastCall.before, k, i),
                                  ForwardDifference(lastCall.before, k, 1)))
               => lastCall.result.degree # k)
    /\ Called("analyzeFibonacci") =>
         ((\E i \in 3..Len(lastCall.before) :
              DiffersByEpsilon(lastCall.before[i],
                               Add(lastCall.before[i - 1], lastCall.before[i - 2])))
            => ~lastCall.result.isValid)

\* the three checks that compare with < EPSILON do decline at exactly
\* EPSILON; the Fibonacci check is left out
C24_StrictElsewhere ==
    Called("analyzeFibonacci") \/ C24_OneToleranceRule

\* the depths 0..5 at which the row has at least 2 elements and constant
\* differences
ConstantDepths(s) ==
    { d \in 0..5 : Len(s) - d >= 2 /\ ConstantAtOrder(s, d + 1) }

\* the degree the search is said to return
SearchDegree(s) ==
    IF ConstantDepths(s) = {} THEN 0
    ELSE 1 + CHOOSE d \in ConstantDepths(s) : \A e \in ConstantDepths(s) : d <= e

\* C25: findDifferencePattern, started on the input at depth 0, returns
\* depth + 1 for the first depth whose row of differences is constant; it
\* looks at depths 0..5 only and returns degree 0 when none of them has a
\* constant row or the row has fewer than 2 elements; analyzePolynomial
\* reports valid only for at least 3 terms with 1 <= degree < 6.
C25_DegreeSearch ==
    /\ Called("findDifferencePattern") =>
         lastCall.result.degree = SearchDegree(lastCall.before)
    /\ Called("analyzePolynomial") =>
         /\ lastCall.result.isValid <=>
              (Len(lastCall.before) >= 3 /\ SearchDegree(lastCall.before) \in 1..5)
         /\ lastCall.result.isValid =>
              lastCall.result.degree = SearchDegree(lastCall.before)

\* the seventh powers 1, 128, 2187, ... have constant differences at depth
\* 6 only: the search returns degree 0
C25_Witness ==
    /\ Called("findDifferencePattern")
    /\ lastCall.before = PowerSeq(7, 0, 9)
    /\ lastCall.result.degree = 0

\* the sum of the last elements of the rows T_0 .. T_degree of the
\* difference table of s
RECURSIVE SumOfLasts(_, _)
SumOfLasts(s, degree) ==
    IF degree < 0 THEN N(0)
    ELSE Add(SumOfLasts(s, degree - 1),
             ForwardDifference(s, degree, Len(s) - degree))

\* p(x) = x^k + c * x
PolynomialValue(k, c, x) == Add(Power(N(x), k), N(c * x))

\* C26: the number predictPolynomial returns is the sum of the last elements
\* of the rows T_0 = sequence, T_1 = diff(T_0), ..., T_degree; for the values
\* p(1), ..., p(n) of an integer polynomial p of degree k <= 5 with
\* n >= k + 2 terms it is p(n + 1).
C26_Prediction ==
    Called("predictPolynomial") =>
        /\ lastCall.result.nextNumber
             = SumOfLasts(lastCall.before, lastCall.result.degree)
        /\ \A k \in 0..5, c \in 0..1 :
             (/\ Len(lastCall.before) >= k + 2
              /\ lastCall.before = PowerSeq(k, c, Len(lastCall.before)))
               => lastCall.result.nextNumber
                    = PolynomialValue(k, c, Len(lastCall.before) + 1)

\* the squares [1, 4, 9, 16, 25] give 36 at degree 2
C26_Witness ==
    /\ Called("predictPolynomial")
    /\ lastCall.before = PowerSeq(2, 0, 5)
    /\ lastCall.result.degree = 2
    /\ lastCall.result.nextNumber = N(36)

\* row m of the finite-difference table of s: its m-th differences
TableRow(s, m) == IteratedDifferences(s, m)

\* the finite-difference table of s down to the row of the given degree
DifferenceTable(s, degree) == [j \in 1..(degree + 1) |-> TableRow(s, j - 1)]

\* C27 (as claimed): the differences of a polynomial result are the
\* finite-difference table of the input: the first row is the sequence as
\* submitted, each following row holds the consecutive differences of the
\* row before it, and the last row is the constant row at the reported
\* degree.
C27_DifferenceTable ==
    ((Called("analyzePolynomial") \/ Called("detectPattern"))
        /\ lastCall.result.type = "polynomial")
      => lastCall.result.differences
           = DifferenceTable(lastCall.before, lastCall.result.degree)

Detectors ==
    {"analyzeFibonacci", "analyzeArithmetic", "analyzeGeometric", "analyzePolynomial"}

\* C28: detectPattern returns after calling at most the four detectors,
\* none of them twice, and the difference search makes at most 7 nested
\* calls, at the depths 0, 1, ..., 6, however long the sequence is.
C28_Terminates ==
    Called("detectPattern calls") =>
        /\ Len(lastCall.result.detectors) <= 4
        /\ \A i \in DOMAIN lastCall.result.detectors :
             /\ lastCall.result.detectors[i] \in Detectors
             /\ \A j \in DOMAIN lastCall.result.detectors :
                  lastCall.result.detectors[i] = lastCall.result.detectors[j] => i = j
        /\ Len(lastCall.result.depths) <= 7
        /\ \A i \in DOMAIN lastCall.result.depths : lastCall.result.depths[i] = i - 1

\* on the first ten primes all four detectors run and the search is entered
\* at the depths 0..6 before it gives up
C28_Witness ==
    /\ Called("detectPattern calls")
    /\ Len(lastCall.before) = 10
    /\ Len(lastCall.result.detectors) = 4
    /\ lastCall.result.depths = <<0, 1, 2, 3, 4, 5, 6>>
    /\ lastCall.result.pattern.type = "unknown"

----------------------------------------------------------------------------
(* Short sequences through analyze: one array of 2 to MaxShortLen numbers, *)
(* analysed and analysed again                                             *)

MaxShortLen == 6

\* the sequences over three small values, the sequences of 2 or 3 terms over
\* the largest double, its negative and 5, and the binary ones one longer
ShortInputs ==
    UNION { SeqsOver({N(0), N(1), N(3)}, n) : n \in 2..MaxShortLen }
    \cup UNION { SeqsOver({MaxValue, Neg(MaxValue), N(5)}, n) : n \in 2..3 }
    \cup SeqsOver({N(0), N(1)}, MaxShortLen + 1)

InitShort ==
    /\ heap \in { <<s>> : s \in ShortInputs }
    /\ memories = <<>>
    /\ history = <<>>
    /\ lastCall = Call("new", NonArrayArg("null"), FALSE, <<>>, NoOutcome)
    /\ lastId = 0

SpecShort == InitShort /\ [][NextDetect]_vars

\* an analyze call on an array of 2 to 6 finite numbers
ShortFiniteInput == FiniteInput /\ Len(lastCall.before) <= 6

\* no detector before the polynomial one accepts the sequence
EarlierDecline(s) ==
    /\ ~analyzeFibonacci(s).isValid
    /\ ~analyzeArithmetic(s).isValid
    /\ ~analyzeGeometric(s).isValid

\* the analyze call failed for want of a pattern
NoPatternFailure ==
    /\ Analyzed
    /\ ~lastCall.result.threw
    /\ ~lastCall.result.success
    /\ lastCall.result.error = ErrNoPattern

\* C29 (as claimed): for every sequence of 2 to 6 finite numbers analyze
\* returns success; a sequence of length 2 is reported as arithmetic, one of
\* length n in 3..6 that no earlier detector accepts as polynomial with
\* degree at most n - 1; the no-pattern failure occurs for length >= 7 only.
C29_ShortNeverUnknown ==
    /\ ShortFiniteInput =>
         /\ lastCall.result.success
         /\ Len(lastCall.before) = 2 => lastCall.result.pattern.type = "arithmetic"
         /\ (Len(lastCall.before) >= 3 /\ EarlierDecline(lastCall.before)) =>
              /\ lastCall.result.pattern.type = "polynomial"
              /\ lastCall.result.pattern.degree <= Len(lastCall.before) - 1
    /\ (NoPatternFailure /\ FiniteInput) => Len(lastCall.before) >= 7

\* C29 (amended): the same for sequences of finite numbers whose difference
\* table is finite throughout, no subtraction overflowing to an infinity.
C29_ShortNeverUnknownWithinRange ==
    /\ (ShortFiniteInput /\ FiniteDifferences(lastCall.before)) =>
         /\ lastCall.result.success
         /\ Len(lastCall.before) = 2 => lastCall.result.pattern.type = "arithmetic"
         /\ (Len(lastCall.before) >= 3 /\ EarlierDecline(lastCall.before)) =>
              /\ lastCall.result.pattern.type = "polynomial"
              /\ lastCall.result.pattern.degree <= Len(lastCall.before) - 1
    /\ (NoPatternFailure /\ FiniteInput /\ FiniteDifferences(lastCall.before))
         => Len(lastCall.before) >= 7

\* [0, 1, 0, 0, 1, 3] is declined by the three earlier detectors and is
\* reported as polynomial of degree 5 on the strength of a single fifth
\* difference
C29_Witness ==
    /\ ShortFiniteInput
    /\ lastCall.before = <<N(0), N(1), N(0), N(0), N(1), N(3)>>
    /\ lastCall.result.success
    /\ lastCall.result.pattern.type = "polynomial"
    /\ lastCall.result.pattern.degree = 5

----------------------------------------------------------------------------
(* The web server: one chamber shared by all requests.  A handler has no   *)
(* await in it, so a request runs to completion before the next one is     *)
(* taken up.  The array of a request body is a new object on the heap.     *)

MaxRequests == 3
MaxBatch == 2

\* the arrays in the bodies of the requests
ServerBodies ==
    { Seq4(2, 4, 6, 8), <<N(1), N(4), N(9), N(16)>>,
      <<N(0), N(1), N(0), N(0), N(1), N(0), N(0)>>, <<N(1), Str, N(3)>> }

\* res.status(400) / res.status(500): { success: false, error, nextNumber: null }
Refused(status, error) ==
    [status |-> status, success |-> FALSE, error |-> error, nextNumber |-> Null]

\* the body of the response of POST /api/echo
EchoResponse(r) ==
    IF r.result.threw THEN Refused(500, "Internal server error during echo")
    ELSE [status |-> 200, success |-> r.result.success, nextNumber |-> r.result.nextNumber,
          pattern |-> r.result.pattern, error |-> r.result.error,
          stored |-> r.result.success, memoryCount |-> Len(getMemories(r.memories))]

\* the body of the response of POST /api/predict
PredictResponse(r) ==
    IF r.result.threw THEN Refused(500, "Internal server error during prediction")
    ELSE [status |-> 200, success |-> r.result.success, nextNumber |-> r.result.nextNumber,
          pattern |-> r.result.pattern, error |-> r.result.error,
          suggestions |-> r.result.suggestions]

\* the chamber after a handler, and the response it sent
Responded(op, arg, before, r, response) ==
    /\ heap' = r.heap
    /\ memories' = r.memories
    /\ history' = r.history
    /\ lastCall' = Call(op, arg, op = "POST /api/echo", before, response)
    /\ lastId' = IF Len(r.history) > Len(history)
                 THEN r.history[Len(r.history)].id
                 ELSE lastId

\* chamber.analyze(sequence, storeMemory) on the array of a request body
analyzeBody(elems, storeMemory) ==
    analyze(Append(heap, elems), memories, history, ArrayArg(Len(heap) + 1),
            storeMemory)

\* POST /api/echo with an array as sequence
PostEcho(elems) ==
    /\ Len(heap) < MaxRequests
    /\ Responded("POST /api/echo", ArrayArg(Len(heap) + 1), elems,
                 analyzeBody(elems, TRUE), EchoResponse(analyzeBody(elems, TRUE)))

\* POST /api/predict with an array as sequence
PostPredict(elems) ==
    /\ Len(heap) < MaxRequests
    /\ Responded("POST /api/predict", ArrayArg(Len(heap) + 1), elems,
                 analyzeBody(elems, FALSE), PredictResponse(analyzeBody(elems, FALSE)))

\* POST /api/echo, /api/predict or /api/batch-predict with a body whose
\* sequence (sequences) is not an array
PostNotArray(op, error) ==
    /\ lastCall' = Call(op, NonArrayArg("object"), FALSE, <<>>, Refused(400, error))
    /\ UNCHANGED <<heap, memories, history, lastId>>

\* one element of the results of a batch
BatchItem(index, r) ==
    [index |-> index, success |-> r.result.success, nextNumber |-> r.result.nextNumber,
     pattern |-> r.result.pattern, error |-> r.result.error]

\* the chamber state r after the items before index, extended by item index
BatchStep(r, index, item) ==
    [item EXCEPT !.result = Append(r.result, BatchItem(index, item))]

\* sequences.map((seq, index) => chamber.analyze(seq, false)) from item
\* index on; r.result holds the results so far, the arrays of the batch are
\* at the addresses first + 1, first + 2, ...
RECURSIVE BatchFrom(_, _, _, _)
BatchFrom(r, first, index, count) ==
    IF index >= count THEN r
    ELSE BatchFrom(BatchStep(r, index,
                             analyze(r.heap, r.memories, r.history,
                                     ArrayArg(first + index + 1), FALSE)),
                   first, index + 1, count)

\* the body of the response of POST /api/batch-predict
BatchResponse(r) ==
    [status |-> 200, success |-> TRUE, totalProcessed |-> Len(r.result),
     successfulPredictions |-> Cardinality({i \in DOMAIN r.result : r.result[i].success}),
     results |-> r.result]

\* the whole map over the arrays of the body
analyzeBatch(bodies) ==
    BatchFrom(Returned(<<>>, heap \o bodies, memories, history),
              Len(heap), 0, Len(bodies))

\* POST /api/batch-predict with an array of arrays as sequences
PostBatchPredict(bodies) ==
    /\ Len(heap) + Len(bodies) <= MaxRequests
    /\ Responded("POST /api/batch-predict", ArrayArg(Len(heap) + 1), <<>>,
                 analyzeBatch(bodies), BatchResponse(analyzeBatch(bodies)))

\* POST /api/memories/clear: chamber.clearMemories(), then the response
\* with the length of the emptied list
PostClear ==
    /\ memories' = <<>>
    /\ history' = clearHistory(history)
    /\ lastCall' = Call("POST /api/memories/clear", NonArrayArg("null"), FALSE, <<>>,
                        [status |-> 200, success |-> TRUE,
                         memoriesRemaining |-> Len(getMemories(<<>>))])
    /\ UNCHANGED <<heap, lastId>>

NextServer ==
    \/ \E elems \in ServerBodies : PostEcho(elems)
    \/ \E elems \in ServerBodies : PostPredict(elems)
    \/ \E n \in 1..MaxBatch : \E bodies \in SeqsOver(ServerBodies, n) : PostBatchPredict(bodies)
    \/ PostNotArray("POST /api/echo", "Sequence must be an array")
    \/ PostNotArray("POST /api/predict", "Sequence must be an array")
    \/ PostNotArray("POST /api/batch-predict", "sequences must be an array of arrays")
    \/ PostClear

SpecServer == Init /\ [][NextServer]_vars

\* memories and history have the same length, entry i of both stems from
\* the same analyze call (the same array, prediction and pattern type) and
\* the history entry at position i (counted from 0) has id i + 1
Lockstep(mem, hist) ==
    /\ Len(mem) = Len(hist)
    /\ \A i \in 1..Len(mem) :
         /\ mem[i].sequence = hist[i].sequence
         /\ mem[i].prediction = hist[i].prediction
         /\ mem[i].patternType = hist[i].pattern.type
         /\ hist[i].id = i

\* C30: under any interleaving of echo, predict, batch-predict and clear
\* requests, each run to completion, memories and history stay in lockstep,
\* and the memoryCount of an echo response that stored its sequence is the
\* length of the log right after that request's own append: one more than
\* before the request, and the length the log then has.
C30_Lockstep ==
    [][/\ Lockstep(memories', history')
       /\ (lastCall'.op = "POST /api/echo" /\ lastCall'.result.status = 200) =>
            /\ lastCall'.result.memoryCount = Len(memories')
            /\ lastCall'.result.stored =>
                 /\ lastCall'.result.memoryCount = Len(memories) + 1
                 /\ memories'[Len(memories')].sequence = lastCall'.arg.ref
                 /\ memories'[Len(memories')].prediction = lastCall'.result.nextNumber
            /\ ~lastCall'.result.stored => memories' = memories]_vars

\* an echo request answered with memoryCount 2 when three requests have
\* brought arrays and two of them were stored
C30_Witness ==
    /\ lastCall.op = "POST /api/echo"
    /\ lastCall.result.status = 200
    /\ lastCall.result.stored
    /\ lastCall.result.memoryCount = 2
    /\ Len(heap) = 3
    /\ Len(history) = 2


============================================================================
